---------------------------- MODULE Spec2Model ----------------------------
(***************************************************************************)
(* A model of the usage aggregation engine of cc-usage-widget              *)
(* (src-tauri/src/usage.rs, api.rs).                                       *)
(*                                                                         *)
(* Time is counted in whole hours.  A timestamp string is modelled by its  *)
(* written form: the date-time digits (local), and the UTC offset suffix   *)
(* (off).  Strings are compared the way Rust compares them (byte-wise);    *)
(* instants are obtained by parsing, as chrono does.                       *)
(*                                                                         *)
(* Option<T> is modelled as a sequence: <<>> is None, <<x>> is Some(x).    *)
(* f64 amounts are modelled exactly: a cost is an integer number of        *)
(* 1e-8 USD, a percentage is a fraction num/den.                           *)
(***************************************************************************)
EXTENDS Integers, Sequences, FiniteSets, TLC

VARIABLES
    pc,                   \* position of the running operation
    period,               \* get_current_usage: the period argument
    since,                \* aggregate_usage: Option<DateTime<Utc>> lower bound
    entries,              \* aggregate_usage: the entries consumed so far, in order
    by_model,             \* aggregate_usage: HashMap<String, TokenUsage>
    total,                \* aggregate_usage / build_usage_stats_from_api: TokenUsage
    latest_timestamp,     \* aggregate_usage: String
    message_count,        \* aggregate_usage: u32
    session_data,         \* aggregate_usage: HashMap<String, (cwd, first, last, ...)>
    quota_window_prompts, \* aggregate_usage: parameter
    week_prompts,         \* aggregate_usage: parameter
    stats,                \* the UsageStats returned
    usage_results,        \* build_usage_stats_from_api: the UsageResult rows consumed so far
    model_tokens,         \* build_usage_stats_from_api: HashMap<String, TokenUsage>
    model_costs,          \* build_usage_stats_from_api: HashMap<String, f64>
    quota_window_weighted,\* get_local_supplemental_data: weighted score, 5 hour window
    week_weighted,        \* get_local_supplemental_data: weighted score, 7 day window
    local_quota,          \* get_local_supplemental_data: the QuotaInfo built
    files_opened,         \* get_current_usage: number of files handed to the parser
    lines_read,           \* number of lines read over all files of the run
    file_readable,        \* whether File::open succeeded for the current file
    file_lines,           \* parse_usage_from_file: lines of the current file read so far
    usages,               \* parse_usage_from_file: Vec<ParsedEntry>
    last_cwd,             \* parse_usage_from_file: String
    parse_result,         \* parse_usage_from_file: Option<Result<Vec<ParsedEntry>, String>>
    all_entries,          \* get_current_usage: Vec<ParsedEntry>
    scan_lines,           \* count_user_prompts_in_window / collect_daily_activity: lines scanned
    prompt_ts,            \* parse_user_prompt_timestamp: result for the last line scanned
    window_hours,         \* count_user_prompts_in_window: the hours argument
    prompt_count,         \* count_user_prompts_in_window: count
    daily_counts,         \* collect_daily_activity: HashMap<String, u32>
    file_results,         \* the outcome of File::open / of the parse for each file so far
    activities,           \* collect_daily_activity: Option<Vec<DailyActivity>> returned
    home,                 \* the projects directories under the home directory, with their files
    data_dirs,            \* get_current_usage: Vec<PathBuf> of get_claude_data_dirs
    file_lists,           \* get_current_usage: the file lists collected so far
    usage_result,         \* get_current_usage: Option<Result<UsageStats, String>> returned
    usage_fetch,          \* build_usage_stats_from_api: state of the usage report request
    cost_fetch,           \* build_usage_stats_from_api: state of the cost report request
    usage_report,         \* build_usage_stats_from_api: the rows of the usage report
    api_by_model,         \* build_usage_stats_from_api: Vec<ModelUsage>
    local_task,           \* build_usage_stats_from_api: state of the spawn_blocking task
    api_return,           \* build_usage_stats_from_api: Option<Result<UsageStats, String>>
    today,                \* Utc::now().date_naive(), as a day number
    cache,                \* UsageService: Option<(f64, u32)>
    summary,              \* get_usage_summary: the last reply
    reset_call,           \* compute_days_until_reset: the day and the result of the last call
    calls,                \* UsageService: the concurrent update_cache / get_usage_summary calls
    compute_count,        \* compute_usage_summary: how many computations have started
    cache_from,           \* UsageService.cache: the computation whose summary is stored (0: none)
    clock,                \* Instant::now() of the watcher thread
    last_event,           \* setup_file_watcher: last_event
    wait_start,           \* setup_file_watcher: when the pending recv_timeout was entered
    channel,              \* setup_file_watcher: events sent and not yet received
    watch_log             \* setup_file_watcher: the events received and the emissions, in order

vars == <<pc, period, since, entries, by_model, total, latest_timestamp,
          message_count, session_data, quota_window_prompts, week_prompts, stats,
          usage_results, model_tokens, model_costs, quota_window_weighted,
          week_weighted, local_quota, files_opened, lines_read, file_lines, usages, last_cwd,
          parse_result, all_entries, file_readable, scan_lines, prompt_ts,
          window_hours, prompt_count, daily_counts, file_results, activities,
          home, data_dirs, file_lists, usage_result,
          usage_fetch, cost_fetch, usage_report, api_by_model, local_task, api_return,
          today, cache, summary, reset_call, calls, compute_count, cache_from,
          clock, last_event, wait_start, channel, watch_log>>

aggVars == <<period, since, entries, by_model, total, latest_timestamp,
             message_count, session_data>>
apiVars == <<usage_results, model_tokens, model_costs>>
quotaVars == <<quota_window_prompts, week_prompts, quota_window_weighted,
               week_weighted, local_quota>>
parseVars == <<files_opened, lines_read, file_lines, usages, last_cwd,
               parse_result, all_entries, file_readable>>
scanVars == <<scan_lines, prompt_ts, window_hours, prompt_count, daily_counts>>
logVars == <<file_results, activities>>
usageVars == <<home, data_dirs, file_lists, usage_result>>
asyncVars == <<usage_fetch, cost_fetch, usage_report, api_by_model, local_task,
               api_return>>
callVars == <<calls, compute_count, cache_from>>
dbusVars == <<today, cache, summary, reset_call, callVars>>
watchVars == <<clock, last_event, wait_start, channel, watch_log>>
restVars == <<usageVars, asyncVars, dbusVars, watchVars>>

(***************************************************************************)
(* Bounds of the model.                                                    *)
(***************************************************************************)
MaxEntries == 3
MaxResults == 3
MaxLines == 3
MaxFiles == 2
MaxQuotaSteps == 6
MaxHomeFiles == 2
MaxReportRows == 2
MaxDay == 13
MaxClock == 10
MaxEvents == 3
MaxCalls == 3

None == <<>>
Some(x) == <<x>>
IsSome(o) == o # <<>>
Unwrap(o) == o[1]

Min(a, b) == IF a < b THEN a ELSE b
Max(a, b) == IF a > b THEN a ELSE b

RECURSIVE SumSeq(_)
SumSeq(s) == IF s = <<>> THEN 0 ELSE Head(s) + SumSeq(Tail(s))

Range(s) == {s[i] : i \in 1..Len(s)}

\* The orders in which a HashMap with key set S may be iterated.
Orders(S) ==
    {o \in [1..Cardinality(S) -> S] : \A i, j \in 1..Cardinality(S) : o[i] = o[j] => i = j}

EmptyMap == [k \in {} |-> 0]

(***************************************************************************)
(* Time and timestamps.                                                    *)
(***************************************************************************)
\* Utc::now(), in hours: 10:00 UTC of some day.
Now == 3010

DayAgo == Now - 24
StartOfToday == Now - (Now % 24)

\* The timestamp strings of the model.  form "empty" is "" (a missing
\* timestamp after unwrap_or_default), "rfc" is YYYY-MM-DDTHH:00:00 followed
\* by "Z" (off = 0) or "+09:00" (off = 9), "text" is a string that is no
\* RFC3339 timestamp ("yesterday").
EmptyString == [form |-> "empty", local |-> 0, off |-> 0]
Rfc(local, off) == [form |-> "rfc", local |-> local, off |-> off]
TextString == [form |-> "text", local |-> 0, off |-> 0]

\* DateTime::parse_from_rfc3339: the instant, or None.
ParseRfc3339(ts) == IF ts.form = "rfc" THEN Some(ts.local - ts.off) ELSE None

\* Byte-wise string order: "" first, then the digit strings by their
\* date-time digits and then by suffix ('+' sorts before 'Z'), then text.
StrKey(ts) ==
    CASE ts.form = "empty" -> <<0, 0, 0>>
      [] ts.form = "rfc" -> <<1, ts.local, IF ts.off = 0 THEN 1 ELSE 0>>
      [] OTHER -> <<2, 0, 0>>

StrLess(a, b) ==
    LET x == StrKey(a)
        y == StrKey(b)
    IN  \/ x[1] < y[1]
        \/ x[1] = y[1] /\ x[2] < y[2]
        \/ x[1] = y[1] /\ x[2] = y[2] /\ x[3] < y[3]

StrGreater(a, b) == StrLess(b, a)

(***************************************************************************)
(* Models, prices, names.                                                  *)
(***************************************************************************)
OPUS == "claude-opus-4-5-20251101"
SONNET == "claude-sonnet-4-20250101"
Models == {OPUS, SONNET}

\* str::contains over the model identifiers of the model.
Contains(model, pat) ==
    CASE model = OPUS -> pat \in {"opus-4-5", "opus-4", "opus"}
      [] model = SONNET -> pat \in {"sonnet-4", "sonnet"}
      [] OTHER -> FALSE

GetModelDisplayName(model) ==
    IF Contains(model, "opus-4-5") \/ Contains(model, "opus-4.5") THEN "Opus 4.5"
    ELSE IF Contains(model, "opus-4") THEN "Opus 4"
    ELSE IF Contains(model, "opus") THEN "Opus"
    ELSE IF Contains(model, "sonnet-4") THEN "Sonnet 4"
    ELSE IF Contains(model, "sonnet-3-5") \/ Contains(model, "sonnet-3.5") THEN "Sonnet 3.5"
    ELSE IF Contains(model, "sonnet") THEN "Sonnet"
    ELSE IF Contains(model, "haiku-3-5") \/ Contains(model, "haiku-3.5") THEN "Haiku 3.5"
    ELSE IF Contains(model, "haiku") THEN "Haiku"
    ELSE model

\* (input, output, cache_write, cache_read) in 1e-2 USD per million tokens.
GetModelPricing(model) ==
    IF Contains(model, "opus") THEN <<1500, 7500, 1875, 150>>
    ELSE IF Contains(model, "sonnet") THEN <<300, 1500, 375, 30>>
    ELSE IF Contains(model, "haiku") THEN <<25, 125, 30, 3>>
    ELSE <<300, 1500, 375, 30>>

\* The cost in 1e-8 USD.
CalculateCost(model, tokens) ==
    LET p == GetModelPricing(model)
    IN  tokens.input_tokens * p[1]
        + tokens.output_tokens * p[2]
        + tokens.cache_creation_input_tokens * p[3]
        + tokens.cache_read_input_tokens * p[4]

GetModelContextLimit(model) == 200000

\* The percentage of context remaining, as the number of tokens remaining
\* (the percentage is this number divided by limit / 100).
CalculateContextRemaining(total_tokens, model) ==
    Max(GetModelContextLimit(model) - total_tokens, 0)

(***************************************************************************)
(* TokenUsage and ParsedEntry.                                             *)
(***************************************************************************)
Tokens(i, o, cc, cr) ==
    [input_tokens |-> i, output_tokens |-> o,
     cache_creation_input_tokens |-> cc, cache_read_input_tokens |-> cr]

TokenUsageDefault == Tokens(0, 0, 0, 0)

AllTokens(t) ==
    t.input_tokens + t.output_tokens
    + t.cache_creation_input_tokens + t.cache_read_input_tokens

SESSION1 == "11111111-aaaa"
SESSION2 == "22222222-bbbb"

\* session_id.chars().take(8).collect()
Take8(session_id) ==
    CASE session_id = SESSION1 -> "11111111"
      [] session_id = SESSION2 -> "22222222"
      [] OTHER -> session_id

DIR_A == "/home/u/alpha"
DIR_B == "/home/u/beta"

\* directory.split('/').last()
LastSegment(directory) ==
    CASE directory = DIR_A -> "alpha"
      [] directory = DIR_B -> "beta"
      [] OTHER -> directory


ParsedEntry(model, tokens, timestamp, session_id, cwd) ==
    [model |-> model, tokens |-> tokens, timestamp |-> timestamp,
     session_id |-> session_id, cwd |-> cwd]

(***************************************************************************)
(* get_current_usage: the period's lower bound.                            *)
(***************************************************************************)
Periods == {"today", "week", "month", "all"}

Since(p) ==
    CASE p = "today" -> Some(StartOfToday)
      [] p = "week" -> Some(Now - 7 * 24)
      [] p = "month" -> Some(Now - 30 * 24)
      [] OTHER -> None

(***************************************************************************)
(* aggregate_usage: the body of the loop over the entries.                 *)
(***************************************************************************)
\* A variant: with a lower bound, only entries with a parsed timestamp at or
\* after it are kept.
InPeriodParsedOnly(e, lower) ==
    \/ ~ IsSome(lower)
    \/ /\ IsSome(ParseRfc3339(e.timestamp))
       /\ Unwrap(ParseRfc3339(e.timestamp)) >= Unwrap(lower)

\* Filter by date if specified for totals: FALSE when the entry is skipped.
InPeriod(e, lower) ==
    ~ (/\ IsSome(lower)
       /\ IsSome(ParseRfc3339(e.timestamp))
       /\ Unwrap(ParseRfc3339(e.timestamp)) < Unwrap(lower))

\* A variant: session tracking placed after the period filter.
InSessionWindowFiltered(e) ==
    LET ts == ParseRfc3339(e.timestamp)
    IN  /\ IsSome(ts)
        /\ Unwrap(ts) >= DayAgo
        /\ e.session_id # ""
        /\ InPeriod(e, since)

\* The guard of the session tracking block.
InSessionWindow(e) ==
    LET ts == ParseRfc3339(e.timestamp)
    IN  /\ IsSome(ts)
        /\ Unwrap(ts) >= DayAgo
        /\ e.session_id # ""

\* Current context = cached context + new tokens being added.
ContextTokens(e) ==
    e.tokens.cache_read_input_tokens
    + e.tokens.cache_creation_input_tokens
    + e.tokens.input_tokens

\* entry(session_id).or_insert((cwd, timestamp, timestamp, 0, 0, 0.0, model, context))
SessionOrInsert(sd, e) ==
    IF e.session_id \in DOMAIN sd
    THEN sd
    ELSE (e.session_id :>
            [cwd |-> e.cwd,
             first_activity |-> e.timestamp,
             last_activity |-> e.timestamp,
             count |-> 0,
             total_tokens |-> 0,
             cost |-> 0,
             model |-> e.model,
             context_tokens |-> ContextTokens(e)]) @@ sd

\* Update first_activity if earlier.
SessionFirst(s, e) ==
    IF StrLess(e.timestamp, s.first_activity)
    THEN [s EXCEPT !.first_activity = e.timestamp]
    ELSE s

\* A variant: the model and the context follow every entry.
SessionLastAlways(s, e) ==
    [s EXCEPT !.last_activity =
                  IF StrGreater(e.timestamp, @) THEN e.timestamp ELSE @,
              !.model = e.model,
              !.context_tokens = ContextTokens(e)]

\* Update last_activity, model, and current context if later.
SessionLast(s, e) ==
    IF StrGreater(e.timestamp, s.last_activity)
    THEN [s EXCEPT !.last_activity = e.timestamp,
                   !.model = e.model,
                   !.context_tokens = ContextTokens(e)]
    ELSE s

\* Message count, total tokens, cost.
SessionCounters(s, e) ==
    [s EXCEPT !.count = @ + 1,
              !.total_tokens = @ + AllTokens(e.tokens),
              !.cost = @ + CalculateCost(e.model, e.tokens)]

\* A variant: the counters move only when the entry sets a new bound.
TrackSessionOnNewBound(sd, e) ==
    IF InSessionWindow(e)
    THEN LET ins == SessionOrInsert(sd, e)
             old == ins[e.session_id]
             upd == SessionLast(SessionFirst(old, e), e)
         IN  [ins EXCEPT ![e.session_id] =
                 IF e.session_id \in DOMAIN sd /\ upd = old
                 THEN upd
                 ELSE SessionCounters(upd, e)]
    ELSE sd

\* Track sessions active in last 24 hours.
TrackSession(sd, e) ==
    IF InSessionWindow(e)
    THEN LET ins == SessionOrInsert(sd, e)
         IN  [ins EXCEPT ![e.session_id] =
                 SessionCounters(SessionLast(SessionFirst(@, e), e), e)]
    ELSE sd

AddTokens(acc, t) ==
    [input_tokens |-> acc.input_tokens + t.input_tokens,
     output_tokens |-> acc.output_tokens + t.output_tokens,
     cache_creation_input_tokens |->
         acc.cache_creation_input_tokens + t.cache_creation_input_tokens,
     cache_read_input_tokens |->
         acc.cache_read_input_tokens + t.cache_read_input_tokens]

\* A variant: the cache-read counter of the model row is not added.
ByModelAddNoCacheRead(bm, e) ==
    LET cur == IF e.model \in DOMAIN bm THEN bm[e.model] ELSE TokenUsageDefault
    IN  (e.model :> [AddTokens(cur, e.tokens) EXCEPT
                        !.cache_read_input_tokens = cur.cache_read_input_tokens]) @@ bm

\* by_model.entry(entry.model).or_default(), then the four additions.
ByModelAdd(bm, e) ==
    LET cur == IF e.model \in DOMAIN bm THEN bm[e.model] ELSE TokenUsageDefault
    IN  (e.model :> AddTokens(cur, e.tokens)) @@ bm

TotalAdd(tot, e) == AddTokens(tot, e.tokens)

LatestTimestamp(latest, e) ==
    IF StrGreater(e.timestamp, latest) THEN e.timestamp ELSE latest

(***************************************************************************)
(* aggregate_usage: the lists built after the loop.                        *)
(***************************************************************************)
ModelUsage(model, tokens, cost) ==
    [model |-> model, display_name |-> GetModelDisplayName(model),
     tokens |-> tokens, cost_usd |-> cost]

\* A variant: lowest first.
ModelBeforeAscending(a, b) ==
    a.tokens.input_tokens + a.tokens.output_tokens
        < b.tokens.input_tokens + b.tokens.output_tokens

\* The comparator of model_usages.sort_by: TRUE when a is ordered before b.
ModelBefore(a, b) ==
    b.tokens.input_tokens + b.tokens.output_tokens
        < a.tokens.input_tokens + a.tokens.output_tokens

RECURSIVE InsertModel(_, _)
InsertModel(sorted, x) ==
    IF sorted = <<>> THEN <<x>>
    ELSE IF ModelBefore(x, Head(sorted)) THEN <<x>> \o sorted
    ELSE <<Head(sorted)>> \o InsertModel(Tail(sorted), x)

\* A stable sort, as slice::sort_by is.
RECURSIVE SortModelsInto(_, _)
SortModelsInto(sorted, rest) ==
    IF rest = <<>> THEN sorted
    ELSE SortModelsInto(InsertModel(sorted, Head(rest)), Tail(rest))

SortModels(rows) == SortModelsInto(<<>>, rows)

\* by_model.into_iter().map(..).collect(), iterated in the order `order`.
ModelUsages(bm, order) ==
    [i \in 1..Len(order) |->
        ModelUsage(order[i], bm[order[i]], CalculateCost(order[i], bm[order[i]]))]

\* A variant: the percentage is not capped.
PercentUncapped(count, limit) == [num |-> count * 100, den |-> limit]

\* The quota estimate.  A percentage is the fraction num / den.
Percent(count, limit) == [num |-> Min(count * 100, limit * 100), den |-> limit]

EstimatedLimit == 125
WeekEstimatedPrompts == (125 * 7 * 24) \div 5

QuotaInfo(window_prompts, limit, pct, week_pct) ==
    [messages_in_window |-> window_prompts,
     window_hours |-> 5,
     estimated_limit |-> limit,
     usage_percent |-> pct,
     plan |-> "Max 5x",
     week_usage_percent |-> week_pct,
     week_limit_hours |-> 210]

LocalQuota(window_prompts, wk_prompts) ==
    QuotaInfo(window_prompts, EstimatedLimit,
              Percent(window_prompts, EstimatedLimit),
              Percent(wk_prompts, WeekEstimatedPrompts))

\* ((last - first).num_minutes().max(0)) as u32, or 0 when one does not parse.
DurationMinutes(first, last) ==
    IF IsSome(ParseRfc3339(first)) /\ IsSome(ParseRfc3339(last))
    THEN Max((Unwrap(ParseRfc3339(last)) - Unwrap(ParseRfc3339(first))) * 60, 0)
    ELSE 0

ActiveSession(session_id, s) ==
    [session_id |-> Take8(session_id),
     project |-> LastSegment(s.cwd),
     directory |-> s.cwd,
     first_activity |-> s.first_activity,
     last_activity |-> s.last_activity,
     duration_minutes |-> DurationMinutes(s.first_activity, s.last_activity),
     message_count |-> s.count,
     total_tokens |-> s.total_tokens,
     cost_usd |-> s.cost,
     model |-> s.model,
     model_display_name |-> GetModelDisplayName(s.model),
     context_remaining_percent |-> CalculateContextRemaining(s.context_tokens, s.model)]

\* The comparator of active_sessions.sort_by: most recent first.
SessionBefore(a, b) == StrLess(b.last_activity, a.last_activity)

RECURSIVE InsertSession(_, _)
InsertSession(sorted, x) ==
    IF sorted = <<>> THEN <<x>>
    ELSE IF SessionBefore(x, Head(sorted)) THEN <<x>> \o sorted
    ELSE <<Head(sorted)>> \o InsertSession(Tail(sorted), x)

RECURSIVE SortSessionsInto(_, _)
SortSessionsInto(sorted, rest) ==
    IF rest = <<>> THEN sorted
    ELSE SortSessionsInto(InsertSession(sorted, Head(rest)), Tail(rest))

SortSessions(rows) == SortSessionsInto(<<>>, rows)

ActiveSessions(sd, order) ==
    [i \in 1..Len(order) |-> ActiveSession(order[i], sd[order[i]])]

UsageStats(tot, cost, models, count, updated, quota, sessions, daily) ==
    [total_tokens |-> tot,
     total_cost_usd |-> cost,
     by_model |-> models,
     session_count |-> count,
     last_updated |-> updated,
     quota |-> quota,
     active_sessions |-> sessions,
     daily_activity |-> daily]

NoStats == UsageStats(TokenUsageDefault, 0, <<>>, 0, EmptyString,
                      LocalQuota(0, 0), <<>>, <<>>)

(***************************************************************************)
(* The inputs of the model.                                                *)
(***************************************************************************)
TokenInputs == {Tokens(1, 2, 4, 8), Tokens(3, 0, 0, 1)}

\* Outside the last 24 hours; inside them and before today's midnight;
\* today; today, written with a +09:00 offset (the instant is 21:00 of
\* yesterday, the string is the greatest); a missing timestamp; a string
\* that is no RFC3339 timestamp.
TimestampInputs ==
    {Rfc(Now - 110, 0), Rfc(Now - 20, 0), Rfc(Now - 5, 0), Rfc(Now - 4, 9), EmptyString,
     TextString}

SessionInputs == {SESSION1, SESSION2, ""}
CwdInputs == {DIR_A, DIR_B}

BaseEntry == ParsedEntry(SONNET, Tokens(1, 2, 4, 8), Rfc(Now - 5, 0), SESSION1, DIR_A)

\* The entries differing from BaseEntry in at most one field, or in model
\* and timestamp only.
EntryInputs ==
    {e \in [model : Models, tokens : TokenInputs, timestamp : TimestampInputs,
            session_id : SessionInputs, cwd : CwdInputs] :
        LET diff == {f \in {"model", "tokens", "timestamp", "session_id", "cwd"} :
                        e[f] # BaseEntry[f]}
        IN  Cardinality(diff) <= 1 \/ diff = {"model", "timestamp"}}

(***************************************************************************)
(* aggregate_usage as a state machine: one step per entry, then the        *)
(* construction of the result.                                             *)
(***************************************************************************)
\* The state of the fold, as a record.
FoldState(bm, tot, latest, cnt, sd) ==
    [by_model |-> bm, total |-> tot, latest_timestamp |-> latest,
     message_count |-> cnt, session_data |-> sd]

\* One iteration of `for entry in entries`.
FoldEntry(st, e, lower) ==
    IF InPeriod(e, lower)
    THEN FoldState(ByModelAdd(st.by_model, e),
                   TotalAdd(st.total, e),
                   LatestTimestamp(st.latest_timestamp, e),
                   st.message_count + 1,
                   TrackSession(st.session_data, e))
    ELSE [st EXCEPT !.session_data = TrackSession(st.session_data, e)]

\* for entry in entries { .. }
RECURSIVE FoldAll(_, _, _)
FoldAll(st, seq, lower) ==
    IF seq = <<>> THEN st
    ELSE FoldAll(FoldEntry(st, Head(seq), lower), Tail(seq), lower)

AggregateEntry(e) ==
    /\ pc = "aggregate"
    /\ Len(entries) < MaxEntries
    /\ entries' = Append(entries, e)
    /\ LET st == FoldEntry(FoldState(by_model, total, latest_timestamp,
                                     message_count, session_data), e, since)
       IN  /\ by_model' = st.by_model
           /\ total' = st.total
           /\ latest_timestamp' = st.latest_timestamp
           /\ message_count' = st.message_count
           /\ session_data' = st.session_data
    /\ UNCHANGED <<pc, period, since, stats>>
    /\ UNCHANGED <<apiVars, quotaVars, parseVars, scanVars>>
    /\ UNCHANGED <<logVars, restVars>>

AggregateFinish ==
    /\ pc = "aggregate"
    /\ \E mo \in Orders(DOMAIN by_model), so \in Orders(DOMAIN session_data) :
          LET model_usages == SortModels(ModelUsages(by_model, mo))
              total_cost == SumSeq([i \in 1..Len(model_usages) |-> model_usages[i].cost_usd])
              active_sessions == SortSessions(ActiveSessions(session_data, so))
          IN  stats' = UsageStats(total, total_cost, model_usages, message_count,
                                  latest_timestamp,
                                  LocalQuota(quota_window_prompts, week_prompts),
                                  active_sessions, <<>>)
    /\ pc' = "done"
    /\ UNCHANGED <<aggVars, apiVars, quotaVars, parseVars, scanVars>>
    /\ UNCHANGED <<logVars, restVars>>


(***************************************************************************)
(* build_usage_stats_from_api: the remote usage and cost reports.          *)
(***************************************************************************)
UsageResult(model, uncached, output, cache_read, cache_creation) ==
    [model |-> model, uncached_input_tokens |-> uncached, output_tokens |-> output,
     cache_read_input_tokens |-> cache_read, cache_creation |-> cache_creation]

CacheCreation(h1, m5) ==
    [ephemeral_1h_input_tokens |-> h1, ephemeral_5m_input_tokens |-> m5]

\* result.model.as_deref().unwrap_or("unknown")
ResultModelName(r) == IF IsSome(r.model) THEN Unwrap(r.model) ELSE "unknown"

\* The tokens one UsageResult adds to its model's entry.
ResultTokens(r) ==
    Tokens(r.uncached_input_tokens,
           r.output_tokens,
           IF IsSome(r.cache_creation)
           THEN Unwrap(r.cache_creation).ephemeral_5m_input_tokens
                + Unwrap(r.cache_creation).ephemeral_1h_input_tokens
           ELSE 0,
           r.cache_read_input_tokens)

\* model_tokens.entry(model_name).or_default(), then the additions.
ModelTokensAdd(mt, r) ==
    LET name == ResultModelName(r)
        cur == IF name \in DOMAIN mt THEN mt[name] ELSE TokenUsageDefault
    IN  (name :> AddTokens(cur, ResultTokens(r))) @@ mt

\* model_costs.get(&model).copied().unwrap_or(0.0)
ModelCost(costs, model) == IF model \in DOMAIN costs THEN costs[model] ELSE 0

\* The rows in iteration order, each with the remote cost of its model.
ApiModelUsages(mt, costs, order) ==
    [i \in 1..Len(order) |->
        ModelUsage(order[i], mt[order[i]], ModelCost(costs, order[i]))]

\* The totals accumulated by the closure of the map over model_tokens.
RECURSIVE ApiTotal(_)
ApiTotal(rows) ==
    IF rows = <<>> THEN TokenUsageDefault
    ELSE AddTokens(ApiTotal(Tail(rows)), Head(rows).tokens)

\* The quota of get_local_supplemental_data, from the weighted scores.
ApiEstimatedLimit == 500
ApiWeekEstimatedPrompts == 2590

RemoteQuota(window_prompts, window_weighted, wk_weighted) ==
    QuotaInfo(window_prompts, ApiEstimatedLimit,
              Percent(window_weighted, ApiEstimatedLimit),
              Percent(wk_weighted, ApiWeekEstimatedPrompts))

ResultInputs ==
    {UsageResult(m, t[1], t[2], t[3], c) :
        m \in {None, Some(OPUS), Some(SONNET)},
        t \in {<<1, 2, 8>>, <<3, 0, 1>>},
        c \in {None, Some(CacheCreation(4, 16))}}

\* The per-model amounts of the cost report, "150" cents being 1.50 USD.
CostInputs == {EmptyMap, (OPUS :> 150 * 1000000)}

ApiResult(r) ==
    /\ pc = "api"
    /\ Len(usage_results) < MaxResults
    /\ usage_results' = Append(usage_results, r)
    /\ model_tokens' = ModelTokensAdd(model_tokens, r)
    /\ UNCHANGED <<pc, model_costs, total, stats, period, since, entries, by_model,
                   latest_timestamp, message_count, session_data>>
    /\ UNCHANGED <<quotaVars, parseVars, scanVars>>
    /\ UNCHANGED <<logVars, restVars>>

ApiFinish ==
    /\ pc = "api"
    /\ \E order \in Orders(DOMAIN model_tokens) :
          LET rows == ApiModelUsages(model_tokens, model_costs, order)
              tot == ApiTotal(rows)
              total_cost == SumSeq([i \in 1..Len(rows) |-> rows[i].cost_usd])
              sorted == SortModels(rows)
              session_count == SumSeq([i \in 1..Len(sorted) |-> AllTokens(sorted[i].tokens)])
          IN  /\ total' = tot
              /\ stats' = UsageStats(tot, total_cost, sorted, session_count,
                                     EmptyString, local_quota, <<>>, <<>>)
    /\ pc' = "api_done"
    /\ UNCHANGED <<apiVars, period, since, entries, by_model, latest_timestamp,
                   message_count, session_data>>
    /\ UNCHANGED <<quotaVars, parseVars, scanVars>>
    /\ UNCHANGED <<logVars, restVars>>

(***************************************************************************)
(* The specification of the two ways a UsageStats is built.                *)
(***************************************************************************)
InitAggregate ==
    /\ entries = <<>>
    /\ by_model = EmptyMap
    /\ total = TokenUsageDefault
    /\ latest_timestamp = EmptyString
    /\ message_count = 0
    /\ session_data = EmptyMap
    /\ stats = NoStats

InitApi ==
    /\ usage_results = <<>>
    /\ model_tokens = EmptyMap

InitQuotaInputs ==
    /\ quota_window_prompts = 0
    /\ week_prompts = 0
    /\ quota_window_weighted = 0
    /\ week_weighted = 0
    /\ local_quota = RemoteQuota(0, 0, 0)

InitParse ==
    /\ files_opened = 0
    /\ lines_read = 0
    /\ file_lines = <<>>
    /\ usages = <<>>
    /\ last_cwd = ""
    /\ parse_result = None
    /\ all_entries = <<>>
    /\ file_readable = TRUE

InitLog ==
    /\ file_results = <<>>
    /\ activities = None

InitUsage ==
    /\ data_dirs = <<>>
    /\ file_lists = EmptyMap
    /\ usage_result = None

InitAsync ==
    /\ usage_fetch = "idle"
    /\ cost_fetch = "idle"
    /\ usage_report = <<>>
    /\ api_by_model = <<>>
    /\ local_task = "not_started"
    /\ api_return = None

\* A call that has not been made yet.
NoCall == [kind |-> "none", pc |-> "idle", seen |-> None, data |-> None, seq |-> 0]

InitDbus ==
    /\ today = 0
    /\ cache = None
    /\ summary = None
    /\ reset_call = None
    /\ calls = [c \in 1..MaxCalls |-> NoCall]
    /\ compute_count = 0
    /\ cache_from = 0

InitWatcher ==
    /\ clock = 0
    /\ last_event = 0
    /\ wait_start = 0
    /\ channel = 0
    /\ watch_log = <<>>

InitRest ==
    /\ home = EmptyMap
    /\ InitUsage
    /\ InitAsync
    /\ InitDbus
    /\ InitWatcher

InitScan ==
    /\ scan_lines = <<>>
    /\ prompt_ts = None
    /\ window_hours = 5
    /\ prompt_count = 0
    /\ daily_counts = EmptyMap

Init ==
    /\ pc \in {"aggregate", "api"}
    /\ period \in (IF pc = "aggregate" THEN Periods ELSE {"today"})
    /\ since = Since(period)
    /\ model_costs \in (IF pc = "api" THEN CostInputs ELSE {EmptyMap})
    /\ InitAggregate
    /\ InitApi
    /\ InitQuotaInputs
    /\ InitParse
    /\ InitScan
    /\ InitLog
    /\ InitRest

Next ==
    \/ \E e \in EntryInputs : AggregateEntry(e)
    \/ AggregateFinish
    \/ \E r \in ResultInputs : ApiResult(r)
    \/ ApiFinish

Spec == Init /\ [][Next]_vars


(***************************************************************************)
(* The quota estimates: aggregate_usage on given prompt counts, and        *)
(* get_local_supplemental_data on the weighted scores.                     *)
(***************************************************************************)
\* Prompt counts up to and beyond a limit.
CountInputs(limit) ==
    {(k * limit) \div 5 : k \in 0..MaxQuotaSteps} \cup {limit - 1, limit + 1}

\* count_weighted_usage_in_window: a score that is never negative.
WeightedInputs(limit) == CountInputs(limit)

GetLocalSupplementalData ==
    /\ pc = "local_data"
    /\ local_quota' = RemoteQuota(quota_window_prompts, quota_window_weighted, week_weighted)
    /\ pc' = "local_done"
    /\ UNCHANGED <<quota_window_prompts, week_prompts, quota_window_weighted,
                   week_weighted, stats>>
    /\ UNCHANGED <<aggVars, apiVars, parseVars, scanVars>>
    /\ UNCHANGED <<logVars, restVars>>

InitQuota ==
    /\ pc \in {"aggregate", "local_data"}
    /\ period = "all"
    /\ since = Since(period)
    /\ model_costs = EmptyMap
    /\ quota_window_prompts \in CountInputs(EstimatedLimit)
    /\ week_prompts \in
          (IF pc = "aggregate" THEN CountInputs(WeekEstimatedPrompts) ELSE {0})
    /\ quota_window_weighted \in
          (IF pc = "local_data" THEN WeightedInputs(ApiEstimatedLimit) ELSE {0})
    /\ week_weighted \in
          (IF pc = "local_data" THEN WeightedInputs(ApiWeekEstimatedPrompts) ELSE {0})
    /\ local_quota = RemoteQuota(0, 0, 0)
    /\ InitAggregate
    /\ InitApi
    /\ InitParse
    /\ InitScan
    /\ InitLog
    /\ InitRest

NextQuota ==
    \/ AggregateFinish
    \/ GetLocalSupplementalData

SpecQuota == InitQuota /\ [][NextQuota]_vars

(***************************************************************************)
(* Log lines.  A line is blank, not JSON, a line the reader could not      *)
(* decode as UTF-8, or a JSON object with the fields the program reads.    *)
(* A JSON timestamp is a string (EmptyString, Rfc, TextString) or a        *)
(* number.                                                                 *)
(***************************************************************************)
NumberValue == [form |-> "number", local |-> 0, off |-> 0]

MessageUsage(i, o, cc, cr) ==
    [input_tokens |-> i, output_tokens |-> o,
     cache_creation_input_tokens |-> cc, cache_read_input_tokens |-> cr]

\* message.content: absent, a string, an array of blocks (each block given
\* by its "type" tag), or another JSON value.
Content(kind, blocks) == [kind |-> kind, blocks |-> blocks]
NoContent == Content("absent", <<>>)

Message(model, usage, content) ==
    [model |-> model, usage |-> usage, content |-> content]

Line(form, type, message, timestamp, sessionId, cwd) ==
    [form |-> form, type |-> type, message |-> message, timestamp |-> timestamp,
     sessionId |-> sessionId, cwd |-> cwd]

JsonLine(type, message, timestamp, sessionId, cwd) ==
    Line("json", type, message, timestamp, sessionId, cwd)

OtherLine(form) == Line(form, None, None, None, None, None)

\* serde_json::from_str::<JournalEntry>: fails on text that is not JSON and
\* on a field of the wrong JSON type (a number where a string is declared).
DecodeJournalEntry(line) ==
    IF line.form = "json"
       /\ ~ (IsSome(line.timestamp) /\ Unwrap(line.timestamp).form = "number")
    THEN Some(line)
    ELSE None

\* serde_json::from_str::<serde_json::Value>: fails on text that is not JSON.
DecodeValue(line) == IF line.form = "json" THEN Some(line) ELSE None

UnwrapOr(o, d) == IF IsSome(o) THEN Unwrap(o) ELSE d

(***************************************************************************)
(* parse_usage_from_file.                                                  *)
(***************************************************************************)
ParseState(us, cwd) == [usages |-> us, last_cwd |-> cwd]

\* A variant: the carried working directory outlives the call.
NewParseKeepCwd == ParseState(<<>>, last_cwd)

\* The locals at the start of a call.
NewParse == ParseState(<<>>, "")

\* A variant: every decoded line with a model and usage is recorded.
ParseLineAnyType(st, line) ==
    IF line.form \in {"unreadable", "blank"} THEN st
    ELSE IF DecodeJournalEntry(line) = None THEN st
    ELSE LET entry == Unwrap(DecodeJournalEntry(line))
             cwd1 == IF IsSome(entry.cwd) THEN Unwrap(entry.cwd) ELSE st.last_cwd
         IN  IF /\ IsSome(entry.message)
                /\ IsSome(Unwrap(entry.message).model)
                /\ IsSome(Unwrap(entry.message).usage)
             THEN LET usage == Unwrap(Unwrap(entry.message).usage)
                  IN  ParseState(
                        Append(st.usages,
                               ParsedEntry(Unwrap(Unwrap(entry.message).model),
                                           Tokens(UnwrapOr(usage.input_tokens, 0),
                                                  UnwrapOr(usage.output_tokens, 0),
                                                  UnwrapOr(usage.cache_creation_input_tokens, 0),
                                                  UnwrapOr(usage.cache_read_input_tokens, 0)),
                                           UnwrapOr(entry.timestamp, EmptyString),
                                           UnwrapOr(entry.sessionId, ""),
                                           UnwrapOr(entry.cwd, cwd1))),
                        cwd1)
             ELSE ParseState(st.usages, cwd1)

\* One iteration of `for line in reader.lines()`.
ParseLine(st, line) ==
    IF line.form = "unreadable" THEN st
    ELSE IF line.form = "blank" THEN st
    ELSE IF DecodeJournalEntry(line) = None THEN st
    ELSE LET entry == Unwrap(DecodeJournalEntry(line))
             \* Update last_cwd if this entry has a cwd
             cwd1 == IF IsSome(entry.cwd) THEN Unwrap(entry.cwd) ELSE st.last_cwd
         IN  IF entry.type # Some("assistant") THEN ParseState(st.usages, cwd1)
             ELSE IF /\ IsSome(entry.message)
                     /\ IsSome(Unwrap(entry.message).model)
                     /\ IsSome(Unwrap(entry.message).usage)
             THEN LET usage == Unwrap(Unwrap(entry.message).usage)
                  IN  ParseState(
                        Append(st.usages,
                               ParsedEntry(Unwrap(Unwrap(entry.message).model),
                                           Tokens(UnwrapOr(usage.input_tokens, 0),
                                                  UnwrapOr(usage.output_tokens, 0),
                                                  UnwrapOr(usage.cache_creation_input_tokens, 0),
                                                  UnwrapOr(usage.cache_read_input_tokens, 0)),
                                           UnwrapOr(entry.timestamp, EmptyString),
                                           UnwrapOr(entry.sessionId, ""),
                                           UnwrapOr(entry.cwd, cwd1))),
                        cwd1)
             ELSE ParseState(st.usages, cwd1)

Ok(v) == [ok |-> TRUE, entries |-> v]
Err == [ok |-> FALSE, entries |-> <<>>]

\* The lines drawn for the parser: those differing from BaseLine in at most
\* one field, and those pairing a working directory with another change.
FullUsage == MessageUsage(Some(1), Some(2), Some(4), Some(8))
PartialUsage == MessageUsage(Some(5), None, None, None)

BaseLine ==
    JsonLine(Some("assistant"), Some(Message(Some(SONNET), Some(FullUsage), NoContent)),
             Some(Rfc(Now - 5, 0)), Some(SESSION1), None)

ParseLineInputs ==
    {OtherLine("blank"), OtherLine("garbage"), OtherLine("unreadable")}
    \cup
    {l \in [form : {"json"},
            type : {None, Some("user"), Some("assistant")},
            message : {None,
                       Some(Message(None, Some(FullUsage), NoContent)),
                       Some(Message(Some(SONNET), None, NoContent)),
                       Some(Message(Some(OPUS), Some(PartialUsage), NoContent)),
                       Some(Message(Some(SONNET), Some(FullUsage), NoContent))},
            timestamp : {None, Some(NumberValue), Some(Rfc(Now - 5, 0))},
            sessionId : {None, Some(SESSION1)},
            cwd : {None, Some(DIR_A), Some(DIR_B)}] :
        LET diff == {f \in {"type", "message", "timestamp", "sessionId", "cwd"} :
                        l[f] # BaseLine[f]}
        IN  \/ Cardinality(diff) <= 1
            \/ /\ Cardinality(diff) = 2
               /\ l.cwd = Some(DIR_A)
               /\ \/ l.type = Some("user")
                  \/ l.timestamp = Some(NumberValue)
                  \/ l.message = Some(Message(Some(SONNET), None, NoContent))}

\* A variant: a file that cannot be opened discards what was read before.
ExtendOrReset(all, res) == IF res.ok THEN all \o res.entries ELSE <<>>

\* if let Ok(entries) = parse_usage_from_file(file) { all_entries.extend(entries) }
ExtendEntries(all, res) == IF res.ok THEN all \o res.entries ELSE all

\* get_current_usage hands the next discovered file to parse_usage_from_file;
\* File::open fails or succeeds.
OpenFile ==
    /\ pc = "files"
    /\ files_opened < MaxFiles
    /\ files_opened' = files_opened + 1
    /\ file_lines' = <<>>
    /\ \E readable \in BOOLEAN :
          /\ file_readable' = readable
          /\ IF readable
             THEN /\ usages' = NewParse.usages
                  /\ last_cwd' = NewParse.last_cwd
                  /\ parse_result' = None
                  /\ pc' = "parsing"
                  /\ UNCHANGED <<file_results, all_entries>>
             ELSE /\ parse_result' = Some(Err)
                  /\ file_results' = Append(file_results, Err)
                  /\ all_entries' = ExtendEntries(all_entries, Err)
                  /\ UNCHANGED <<usages, last_cwd, pc>>
    /\ UNCHANGED <<lines_read, stats>>
    /\ UNCHANGED <<aggVars, apiVars, quotaVars, scanVars>>
    /\ UNCHANGED <<activities, restVars>>

ReadLine(line) ==
    /\ pc = "parsing"
    /\ lines_read < MaxLines
    /\ lines_read' = lines_read + 1
    /\ file_lines' = Append(file_lines, line)
    /\ LET st == ParseLine(ParseState(usages, last_cwd), line)
       IN  /\ usages' = st.usages
           /\ last_cwd' = st.last_cwd
    /\ UNCHANGED <<pc, files_opened, parse_result, all_entries, file_readable, stats>>
    /\ UNCHANGED <<aggVars, apiVars, quotaVars, scanVars>>
    /\ UNCHANGED <<logVars, restVars>>

\* The end of the file: Ok(usages), which the caller appends to all_entries.
EndOfFile ==
    /\ pc = "parsing"
    /\ parse_result' = Some(Ok(usages))
    /\ file_results' = Append(file_results, Ok(usages))
    /\ all_entries' = ExtendEntries(all_entries, Ok(usages))
    /\ pc' = "files"
    /\ UNCHANGED <<files_opened, lines_read, file_lines, usages, last_cwd,
                   file_readable, stats>>
    /\ UNCHANGED <<aggVars, apiVars, quotaVars, scanVars>>
    /\ UNCHANGED <<activities, restVars>>

(***************************************************************************)
(* parse_user_prompt_timestamp, count_user_prompts_in_window and           *)
(* collect_daily_activity.                                                 *)
(***************************************************************************)
\* A variant: an array of blocks always counts as a prompt.
IsRealPromptAnyArray(content) == content.kind \in {"string", "array"}

\* Check if this is an actual user prompt (has text content).
IsRealPrompt(content) ==
    IF content.kind = "string" THEN TRUE
    ELSE IF content.kind = "array"
    THEN \E i \in 1..Len(content.blocks) : content.blocks[i] = Some("text")
    ELSE FALSE

ParseUserPromptTimestamp(line) ==
    IF DecodeValue(line) = None THEN None
    ELSE LET entry == Unwrap(DecodeValue(line))
         IN  IF entry.type # Some("user") THEN None
             ELSE IF ~ IsSome(entry.message) THEN None
             ELSE IF Unwrap(entry.message).content.kind = "absent" THEN None
             ELSE IF ~ IsRealPrompt(Unwrap(entry.message).content) THEN None
             ELSE IF IsSome(entry.timestamp) /\ Unwrap(entry.timestamp).form # "number"
             THEN entry.timestamp
             ELSE None

\* ts.format("%Y-%m-%d"): the calendar day of the timestamp as written.
FormatDate(ts) == ts.local \div 24

\* The body of the loop over the lines, FALSE when the line is not counted.
CountsInWindow(line, hours) ==
    /\ line.form \notin {"unreadable", "blank"}
    /\ IsSome(ParseUserPromptTimestamp(line))
    /\ IsSome(ParseRfc3339(Unwrap(ParseUserPromptTimestamp(line))))
    /\ Unwrap(ParseRfc3339(Unwrap(ParseUserPromptTimestamp(line)))) >= Now - hours

\* *daily_counts.entry(date).or_insert(0) += 1
DailyAdd(dc, date) ==
    (date :> (IF date \in DOMAIN dc THEN dc[date] ELSE 0) + 1) @@ dc

UserContent(content) == Some(Message(None, None, content))

BasePrompt ==
    JsonLine(Some("user"), UserContent(Content("string", <<>>)),
             Some(Rfc(Now - 1, 0)), Some(SESSION1), None)

\* The lines drawn for the prompt scans: those differing from BasePrompt in
\* at most one field.  The timestamps are inside the 5 hours, inside the 7
\* days, inside the 84 days (one written with a +09:00 offset, on the next
\* calendar day of its zone), older, text, a number, absent.
ScanLineInputs ==
    {OtherLine("blank"), OtherLine("garbage")}
    \cup
    {l \in [form : {"json"},
            type : {None, Some("user"), Some("assistant")},
            message : {None,
                       UserContent(NoContent),
                       UserContent(Content("string", <<>>)),
                       UserContent(Content("other", <<>>)),
                       UserContent(Content("array", <<>>)),
                       UserContent(Content("array", <<Some("tool_result")>>)),
                       UserContent(Content("array", <<Some("text")>>)),
                       UserContent(Content("array", <<None, Some("tool_result"), Some("text")>>))},
            timestamp : {None, Some(NumberValue), Some(TextString),
                         Some(Rfc(Now - 1, 0)), Some(Rfc(Now - 20, 0)),
                         Some(Rfc(Now - 8, 9)), Some(Rfc(Now - 1000, 0)),
                         Some(Rfc(Now - 84 * 24 - 1, 0))},
            sessionId : {Some(SESSION1)},
            cwd : {None}] :
        Cardinality({f \in {"type", "message", "timestamp"} : l[f] # BasePrompt[f]}) <= 1}

\* DailyActivity { date, prompt_count }
DailyActivity(date, count) == [date |-> date, prompt_count |-> count]

\* A variant: latest date first.
DateBeforeDescending(a, b) == b.date < a.date

\* The comparator of activities.sort_by: a.date.cmp(&b.date) is Less.  Dates
\* are written YYYY-MM-DD, so the strings compare as the days do.
DateBefore(a, b) == a.date < b.date

RECURSIVE InsertActivity(_, _)
InsertActivity(sorted, x) ==
    IF sorted = <<>> THEN <<x>>
    ELSE IF DateBefore(x, Head(sorted)) THEN <<x>> \o sorted
    ELSE <<Head(sorted)>> \o InsertActivity(Tail(sorted), x)

RECURSIVE SortActivitiesInto(_, _)
SortActivitiesInto(sorted, rest) ==
    IF rest = <<>> THEN sorted
    ELSE SortActivitiesInto(InsertActivity(sorted, Head(rest)), Tail(rest))

\* daily_counts.into_iter().map(..).collect(), iterated in the order `order`,
\* then sorted.
Activities(dc, order) ==
    SortActivitiesInto(<<>>, [i \in 1..Len(order) |->
                                 DailyActivity(order[i], dc[order[i]])])

\* The next file of the list of a scan: File::open fails (the file is
\* skipped) or succeeds (its lines are read next).
ScanOpenFile ==
    /\ pc \in {"count", "daily"}
    /\ activities = None
    /\ files_opened < MaxFiles
    /\ files_opened' = files_opened + 1
    /\ \E readable \in BOOLEAN :
          /\ file_readable' = readable
          /\ file_results' = Append(file_results, IF readable THEN Ok(<<>>) ELSE Err)
    /\ UNCHANGED <<pc, stats, lines_read, file_lines, usages, last_cwd,
                   parse_result, all_entries, activities>>
    /\ UNCHANGED <<aggVars, apiVars, quotaVars, scanVars, restVars>>

\* One line of count_user_prompts_in_window(files, window_hours).
CountLine(line) ==
    /\ pc = "count"
    /\ files_opened > 0
    /\ file_readable
    /\ Len(scan_lines) < MaxLines
    /\ scan_lines' = Append(scan_lines, line)
    /\ prompt_ts' = ParseUserPromptTimestamp(line)
    /\ prompt_count' = IF CountsInWindow(line, window_hours)
                       THEN prompt_count + 1
                       ELSE prompt_count
    /\ UNCHANGED <<pc, window_hours, daily_counts, stats>>
    /\ UNCHANGED <<aggVars, apiVars, quotaVars, parseVars>>
    /\ UNCHANGED <<logVars, restVars>>

\* One line of collect_daily_activity(files).
DailyLine(line) ==
    /\ pc = "daily"
    /\ activities = None
    /\ files_opened > 0
    /\ file_readable
    /\ Len(scan_lines) < MaxLines
    /\ scan_lines' = Append(scan_lines, line)
    /\ prompt_ts' = ParseUserPromptTimestamp(line)
    /\ daily_counts' = IF CountsInWindow(line, 84 * 24)
                       THEN DailyAdd(daily_counts, FormatDate(Unwrap(ParseUserPromptTimestamp(line))))
                       ELSE daily_counts
    /\ UNCHANGED <<pc, window_hours, prompt_count, stats>>
    /\ UNCHANGED <<aggVars, apiVars, quotaVars, parseVars>>
    /\ UNCHANGED <<logVars, restVars>>

\* The end of collect_daily_activity: the map becomes the sorted list.
DailyFinish ==
    /\ pc = "daily"
    /\ activities = None
    /\ \E order \in Orders(DOMAIN daily_counts) :
          activities' = Some(Activities(daily_counts, order))
    /\ UNCHANGED <<pc, stats, file_results>>
    /\ UNCHANGED <<aggVars, apiVars, quotaVars, parseVars, scanVars, restVars>>

(***************************************************************************)
(* The specification of the readers of the log files.                      *)
(***************************************************************************)
InitFiles ==
    /\ pc \in {"files", "count", "daily"}
    /\ period = "all"
    /\ since = Since(period)
    /\ model_costs = EmptyMap
    /\ InitAggregate
    /\ InitApi
    /\ InitQuotaInputs
    /\ InitParse
    /\ InitLog
    /\ InitRest
    /\ scan_lines = <<>>
    /\ prompt_ts = None
    /\ window_hours \in (IF pc = "count" THEN {5, 24 * 7} ELSE {5})
    /\ prompt_count = 0
    /\ daily_counts = EmptyMap

NextFiles ==
    \/ OpenFile
    \/ \E line \in ParseLineInputs : ReadLine(line)
    \/ EndOfFile
    \/ \E line \in ScanLineInputs : CountLine(line)
    \/ \E line \in ScanLineInputs : DailyLine(line)
    \/ ScanOpenFile
    \/ DailyFinish

SpecFiles == InitFiles /\ [][NextFiles]_vars

(***************************************************************************)
(* get_current_usage over the directories and files of the home directory. *)
(* A file has a path, a name that matches *.jsonl or not, a modification   *)
(* time (None when its metadata cannot be read), may be opened or not, and *)
(* has lines.  A projects directory exists (Some(files)) or not (None).    *)
(***************************************************************************)
File(jsonl, modified, readable, lines) ==
    [jsonl |-> jsonl, modified |-> modified, readable |-> readable, lines |-> lines]

Home(config, legacy) == [config |-> config, legacy |-> legacy]

\* dirs::home_dir() is None, or the two candidate directories.
NoHome == None

\* The files of a directory, each with its path.
WithPaths(root, files) ==
    [i \in 1..Len(files) |-> [path |-> <<root, i>>] @@ files[i]]

\* A variant: both locations are required.
PushIfBothExist(dirs, h, root) ==
    IF IsSome(h.config) /\ IsSome(h.legacy) THEN Append(dirs, root) ELSE dirs

\* if dir.exists() { dirs.push(dir) }
PushIfExists(dirs, h, root) ==
    IF IsSome(h[root]) THEN Append(dirs, root) ELSE dirs

GetClaudeDataDirs(h) ==
    IF h = NoHome THEN <<>>
    ELSE PushIfExists(PushIfExists(<<>>, Unwrap(h), "config"), Unwrap(h), "legacy")

\* A variant: a file modified exactly at the cutoff is skipped.
OlderOrAtCutoff(modified, cutoff_time) == modified <= cutoff_time

\* modified < cutoff_time
OlderThanCutoff(modified, cutoff_time) == modified < cutoff_time

\* The body of the loop over the entries of the glob of one directory.
RECURSIVE CollectFrom(_, _, _)
CollectFrom(files, found, cutoff) ==
    IF found = <<>> THEN files
    ELSE LET entry == Head(found)
             skip == /\ IsSome(cutoff)
                     /\ IsSome(entry.modified)
                     /\ OlderThanCutoff(Unwrap(entry.modified), Unwrap(cutoff))
         IN  CollectFrom(IF skip THEN files ELSE Append(files, entry),
                         Tail(found), cutoff)

\* glob("{dir}/**/*.jsonl"): the matching files of the directory.
Glob(h, dir) ==
    SelectSeq(WithPaths(dir, Unwrap(Unwrap(h)[dir])), LAMBDA f : f.jsonl)

RECURSIVE CollectDirs(_, _, _, _)
CollectDirs(files, h, dirs, cutoff) ==
    IF dirs = <<>> THEN files
    ELSE CollectDirs(CollectFrom(files, Glob(h, Head(dirs)), cutoff),
                     h, Tail(dirs), cutoff)

CollectJsonlFiles(h, dirs, max_age_hours) ==
    CollectDirs(<<>>, h, dirs,
                IF IsSome(max_age_hours) THEN Some(Now - Unwrap(max_age_hours)) ELSE None)

\* Determine file age filter based on period (add buffer for safety).
PeriodHours(p) ==
    CASE p = "today" -> Some(25)
      [] p = "week" -> Some(24 * 8)
      [] p = "month" -> Some(24 * 32)
      [] OTHER -> None

RECURSIVE ParseLines(_, _)
ParseLines(st, lines) ==
    IF lines = <<>> THEN st
    ELSE ParseLines(ParseLine(st, Head(lines)), Tail(lines))

ParseUsageFromFile(file) ==
    IF file.readable THEN Ok(ParseLines(NewParse, file.lines).usages) ELSE Err

RECURSIVE ParseFiles(_, _)
ParseFiles(all, files) ==
    IF files = <<>> THEN all
    ELSE ParseFiles(ExtendEntries(all, ParseUsageFromFile(Head(files))), Tail(files))

RECURSIVE CountLines(_, _, _)
CountLines(count, lines, hours) ==
    IF lines = <<>> THEN count
    ELSE CountLines(IF CountsInWindow(Head(lines), hours) THEN count + 1 ELSE count,
                    Tail(lines), hours)

RECURSIVE CountFiles(_, _, _)
CountFiles(count, files, hours) ==
    IF files = <<>> THEN count
    ELSE CountFiles(IF Head(files).readable
                    THEN CountLines(count, Head(files).lines, hours)
                    ELSE count,
                    Tail(files), hours)

CountUserPromptsInWindow(files, hours) == CountFiles(0, files, hours)

RECURSIVE DailyLines(_, _)
DailyLines(dc, lines) ==
    IF lines = <<>> THEN dc
    ELSE DailyLines(IF CountsInWindow(Head(lines), 84 * 24)
                    THEN DailyAdd(dc, FormatDate(Unwrap(ParseUserPromptTimestamp(Head(lines)))))
                    ELSE dc,
                    Tail(lines))

RECURSIVE DailyFiles(_, _)
DailyFiles(dc, files) ==
    IF files = <<>> THEN dc
    ELSE DailyFiles(IF Head(files).readable THEN DailyLines(dc, Head(files).lines) ELSE dc,
                    Tail(files))

\* A collected file list, with the age filter it was collected under.
FileList(max_age_hours, files) == [max_age_hours |-> max_age_hours, files |-> files]

ErrNoDirs == [ok |-> FALSE, error |-> "No Claude data directories found"]
OkStats(st) == [ok |-> TRUE, stats |-> st]

\* let data_dirs = get_claude_data_dirs(); if data_dirs.is_empty() { return Err }
UsageDirs ==
    /\ pc = "usage_dirs"
    /\ data_dirs' = GetClaudeDataDirs(home)
    /\ IF data_dirs' = <<>>
       THEN /\ usage_result' = Some(ErrNoDirs)
            /\ pc' = "usage_returned"
       ELSE /\ usage_result' = None
            /\ pc' = "usage_files"
    /\ UNCHANGED <<home, file_lists, stats>>
    /\ UNCHANGED <<aggVars, apiVars, quotaVars, parseVars, scanVars, logVars>>
    /\ UNCHANGED <<asyncVars, dbusVars, watchVars>>

\* The usage files of the period are collected and parsed.
UsageParseFiles ==
    /\ pc = "usage_files"
    /\ LET usage_files == CollectJsonlFiles(home, data_dirs, PeriodHours(period))
       IN  /\ file_lists' = ("usage_files" :> FileList(PeriodHours(period), usage_files))
           /\ all_entries' = ParseFiles(<<>>, usage_files)
    /\ pc' = "usage_quota"
    /\ UNCHANGED <<home, data_dirs, usage_result, stats>>
    /\ UNCHANGED <<files_opened, lines_read, file_lines, usages, last_cwd,
                   parse_result, file_readable>>
    /\ UNCHANGED <<aggVars, apiVars, quotaVars, scanVars, logVars>>
    /\ UNCHANGED <<asyncVars, dbusVars, watchVars>>

\* The prompts of the 5 hour and of the 7 day windows are counted.
UsageCountPrompts ==
    /\ pc = "usage_quota"
    /\ LET five_hr_files == CollectJsonlFiles(home, data_dirs, Some(6))
           week_files == CollectJsonlFiles(home, data_dirs, Some(24 * 8))
       IN  /\ file_lists' = ("five_hr_files" :> FileList(Some(6), five_hr_files))
                            @@ ("week_files" :> FileList(Some(24 * 8), week_files))
                            @@ file_lists
           /\ quota_window_prompts' = CountUserPromptsInWindow(five_hr_files, 5)
           /\ week_prompts' = CountUserPromptsInWindow(week_files, 24 * 7)
    /\ pc' = "usage_daily"
    /\ UNCHANGED <<home, data_dirs, usage_result, stats>>
    /\ UNCHANGED <<quota_window_weighted, week_weighted, local_quota>>
    /\ UNCHANGED <<aggVars, apiVars, parseVars, scanVars, logVars>>
    /\ UNCHANGED <<asyncVars, dbusVars, watchVars>>

\* The daily activity of the last 84 days is collected.
UsageDailyActivity ==
    /\ pc = "usage_daily"
    /\ LET activity_files == CollectJsonlFiles(home, data_dirs, Some(24 * 85))
           counts == DailyFiles(EmptyMap, activity_files)
       IN  /\ file_lists' = ("activity_files" :> FileList(Some(24 * 85), activity_files))
                            @@ file_lists
           /\ daily_counts' = counts
           /\ \E order \in Orders(DOMAIN counts) :
                 activities' = Some(Activities(counts, order))
    /\ pc' = "usage_aggregate"
    /\ UNCHANGED <<home, data_dirs, usage_result, stats, file_results>>
    /\ UNCHANGED <<scan_lines, prompt_ts, window_hours, prompt_count>>
    /\ UNCHANGED <<aggVars, apiVars, quotaVars, parseVars>>
    /\ UNCHANGED <<asyncVars, dbusVars, watchVars>>

\* Ok(aggregate_usage(all_entries, since, quota_window_prompts, week_prompts,
\* daily_activity))
UsageAggregate ==
    /\ pc = "usage_aggregate"
    /\ since' = Since(period)
    /\ entries' = all_entries
    /\ LET st == FoldAll(FoldState(EmptyMap, TokenUsageDefault, EmptyString, 0, EmptyMap),
                         all_entries, since')
       IN  /\ by_model' = st.by_model
           /\ total' = st.total
           /\ latest_timestamp' = st.latest_timestamp
           /\ message_count' = st.message_count
           /\ session_data' = st.session_data
           /\ \E mo \in Orders(DOMAIN st.by_model), so \in Orders(DOMAIN st.session_data) :
                 LET model_usages == SortModels(ModelUsages(st.by_model, mo))
                     total_cost == SumSeq([i \in 1..Len(model_usages) |->
                                              model_usages[i].cost_usd])
                     active_sessions == SortSessions(ActiveSessions(st.session_data, so))
                 IN  stats' = UsageStats(st.total, total_cost, model_usages,
                                         st.message_count, st.latest_timestamp,
                                         LocalQuota(quota_window_prompts, week_prompts),
                                         active_sessions, Unwrap(activities))
    /\ usage_result' = Some(OkStats(stats'))
    /\ pc' = "usage_returned"
    /\ UNCHANGED <<period, home, data_dirs, file_lists>>
    /\ UNCHANGED <<apiVars, quotaVars, parseVars, scanVars, logVars>>
    /\ UNCHANGED <<asyncVars, dbusVars, watchVars>>

\* The files drawn: those differing from BaseFile in at most one attribute.
\* The modification times are recent, exactly 6 hours old, 7 hours, 30
\* hours, 9 days and 90 days old, or cannot be read.
PromptAndTurn == <<BasePrompt, BaseLine>>

LinesInputs ==
    {PromptAndTurn,
     <<>>,
     <<OtherLine("garbage"), [BasePrompt EXCEPT !.timestamp = Some(Rfc(Now - 20, 0))]>>,
     <<[BaseLine EXCEPT !.timestamp = Some(Rfc(Now - 110, 0)), !.cwd = Some(DIR_A)],
       [BaseLine EXCEPT !.sessionId = None]>>}

BaseFile == File(TRUE, Some(Now - 1), TRUE, PromptAndTurn)

FileInputs ==
    {f \in [jsonl : BOOLEAN,
            modified : {None, Some(Now - 1), Some(Now - 6), Some(Now - 7), Some(Now - 30),
                        Some(Now - 24 * 9), Some(Now - 24 * 90)},
            readable : BOOLEAN,
            lines : LinesInputs] :
        Cardinality({a \in {"jsonl", "modified", "readable", "lines"} :
                        f[a] # BaseFile[a]}) <= 1}

FilesInputs == UNION {[1..n -> FileInputs] : n \in 0..MaxHomeFiles}

HomeInputs ==
    {NoHome} \cup
    {Some(Home(c, l)) :
        c \in {None} \cup {Some(fs) : fs \in FilesInputs},
        l \in {None, Some(<<>>), Some(<<BaseFile>>)}}

InitGetCurrentUsage ==
    /\ pc = "usage_dirs"
    /\ period \in Periods \cup {"year"}
    /\ since = None
    /\ home \in HomeInputs
    /\ model_costs = EmptyMap
    /\ InitAggregate
    /\ InitApi
    /\ InitQuotaInputs
    /\ InitParse
    /\ InitScan
    /\ InitLog
    /\ InitUsage
    /\ InitAsync
    /\ InitDbus
    /\ InitWatcher

NextGetCurrentUsage ==
    \/ UsageDirs
    \/ UsageParseFiles
    \/ UsageCountPrompts
    \/ UsageDailyActivity
    \/ UsageAggregate

SpecUsage == InitGetCurrentUsage /\ [][NextGetCurrentUsage]_vars

(***************************************************************************)
(* build_usage_stats_from_api: the requests, the blocking task and the     *)
(* join.  A request is idle, in flight, or has one of four outcomes.       *)
(***************************************************************************)
FetchOutcomes == {"ok", "request_failed", "api_error", "parse_failed"}

\* The error string of a failed request of the report `what`.
FetchError(what, outcome) ==
    CASE outcome = "request_failed" -> what \o " report request failed"
      [] outcome = "api_error" -> what \o " report API error"
      [] OTHER -> "Failed to parse " \o what \o " report"

ApiErr(msg) == [ok |-> FALSE, error |-> msg]

\* A variant: a failed request is not propagated.
ContinueAlways(outcome, next) == next

\* `.await?`: where the function continues after a request.
AfterAwait(outcome, next) == IF outcome = "ok" THEN next ELSE "build_returned"

RECURSIVE ModelTokensAll(_, _)
ModelTokensAll(mt, results) ==
    IF results = <<>> THEN mt
    ELSE ModelTokensAll(ModelTokensAdd(mt, Head(results)), Tail(results))

\* The usage reports drawn: up to two rows for today.
ReportRows ==
    {UsageResult(Some(OPUS), 1, 2, 8, None),
     UsageResult(Some(SONNET), 3, 0, 1, Some(CacheCreation(4, 16))),
     UsageResult(None, 1, 2, 8, None)}

ReportInputs == UNION {[1..n -> ReportRows] : n \in 0..MaxReportRows}

\* client.fetch_usage_report(..) is issued.
FetchUsageReport ==
    /\ pc = "build_start"
    /\ usage_fetch' = "in_flight"
    /\ pc' = "await_usage"
    /\ UNCHANGED <<cost_fetch, usage_report, api_by_model, local_task, api_return, stats>>
    /\ UNCHANGED <<aggVars, apiVars, quotaVars, parseVars, scanVars, logVars>>
    /\ UNCHANGED <<usageVars, dbusVars, watchVars>>

\* The usage request completes and the function resumes.
UsageReportResponse(outcome, report) ==
    /\ pc = "await_usage"
    /\ usage_fetch = "in_flight"
    /\ usage_fetch' = outcome
    /\ usage_report' = IF outcome = "ok" THEN report ELSE <<>>
    /\ pc' = AfterAwait(outcome, "fetch_cost")
    /\ api_return' = IF pc' = "build_returned"
                     THEN Some(ApiErr(FetchError("Usage", outcome)))
                     ELSE None
    /\ UNCHANGED <<cost_fetch, api_by_model, local_task, stats>>
    /\ UNCHANGED <<aggVars, apiVars, quotaVars, parseVars, scanVars, logVars>>
    /\ UNCHANGED <<usageVars, dbusVars, watchVars>>

\* client.fetch_cost_report(..) is issued.
FetchCostReport ==
    /\ pc = "fetch_cost"
    /\ cost_fetch' = "in_flight"
    /\ pc' = "await_cost"
    /\ UNCHANGED <<usage_fetch, usage_report, api_by_model, local_task, api_return, stats>>
    /\ UNCHANGED <<aggVars, apiVars, quotaVars, parseVars, scanVars, logVars>>
    /\ UNCHANGED <<usageVars, dbusVars, watchVars>>

\* The cost request completes; on success the two reports are aggregated
\* into the rows and the totals, and the local computation is handed to
\* spawn_blocking.
CostReportResponse(outcome, costs) ==
    /\ pc = "await_cost"
    /\ cost_fetch = "in_flight"
    /\ cost_fetch' = outcome
    /\ pc' = AfterAwait(outcome, "await_local")
    /\ IF pc' = "build_returned"
       THEN /\ api_return' = Some(ApiErr(FetchError("Cost", outcome)))
            /\ UNCHANGED <<model_tokens, model_costs, total, api_by_model, local_task>>
       ELSE /\ api_return' = None
            /\ model_tokens' = ModelTokensAll(EmptyMap, usage_report)
            /\ model_costs' = IF outcome = "ok" THEN costs ELSE EmptyMap
            /\ \E order \in Orders(DOMAIN model_tokens') :
                  LET rows == ApiModelUsages(model_tokens', model_costs', order)
                  IN  /\ total' = ApiTotal(rows)
                      /\ api_by_model' = SortModels(rows)
            /\ local_task' = "running"
    /\ UNCHANGED <<usage_fetch, usage_report, usage_results, stats>>
    /\ UNCHANGED <<period, since, entries, by_model, latest_timestamp, message_count,
                   session_data>>
    /\ UNCHANGED <<quotaVars, parseVars, scanVars, logVars>>
    /\ UNCHANGED <<usageVars, dbusVars, watchVars>>

\* The blocking task runs get_local_supplemental_data to its end.
LocalTaskRuns ==
    /\ local_task = "running"
    /\ \E p \in {0, 3},
          w \in {0, ApiEstimatedLimit \div 2, ApiEstimatedLimit + 100},
          ww \in {0, ApiWeekEstimatedPrompts} :
          /\ quota_window_prompts' = p
          /\ quota_window_weighted' = w
          /\ week_weighted' = ww
          /\ local_quota' = RemoteQuota(p, w, ww)
    /\ local_task' = "done"
    /\ UNCHANGED <<pc, week_prompts, stats>>
    /\ UNCHANGED <<usage_fetch, cost_fetch, usage_report, api_by_model, api_return>>
    /\ UNCHANGED <<aggVars, apiVars, parseVars, scanVars, logVars>>
    /\ UNCHANGED <<usageVars, dbusVars, watchVars>>

\* The blocking task ends without a value (it panicked or was cancelled).
LocalTaskFails ==
    /\ local_task = "running"
    /\ local_task' = "failed"
    /\ UNCHANGED <<pc, stats>>
    /\ UNCHANGED <<usage_fetch, cost_fetch, usage_report, api_by_model, api_return>>
    /\ UNCHANGED <<aggVars, apiVars, quotaVars, parseVars, scanVars, logVars>>
    /\ UNCHANGED <<usageVars, dbusVars, watchVars>>

\* The join handle resolves and the UsageStats is assembled.
JoinLocal ==
    /\ pc = "await_local"
    /\ local_task \in {"done", "failed"}
    /\ IF local_task = "done"
       THEN /\ stats' = UsageStats(total,
                                   SumSeq([i \in 1..Len(api_by_model) |->
                                              api_by_model[i].cost_usd]),
                                   api_by_model,
                                   SumSeq([i \in 1..Len(api_by_model) |->
                                              AllTokens(api_by_model[i].tokens)]),
                                   EmptyString, local_quota, <<>>, <<>>)
            /\ api_return' = Some(OkStats(stats'))
       ELSE /\ api_return' = Some(ApiErr("Failed to get local data"))
            /\ UNCHANGED stats
    /\ pc' = "build_returned"
    /\ UNCHANGED <<usage_fetch, cost_fetch, usage_report, api_by_model, local_task>>
    /\ UNCHANGED <<aggVars, apiVars, quotaVars, parseVars, scanVars, logVars>>
    /\ UNCHANGED <<usageVars, dbusVars, watchVars>>

InitBuild ==
    /\ pc = "build_start"
    /\ period = "today"
    /\ since = Since(period)
    /\ model_costs = EmptyMap
    /\ InitAggregate
    /\ InitApi
    /\ InitQuotaInputs
    /\ InitParse
    /\ InitScan
    /\ InitLog
    /\ home = EmptyMap
    /\ InitUsage
    /\ InitAsync
    /\ InitDbus
    /\ InitWatcher

NextBuild ==
    \/ FetchUsageReport
    \/ \E outcome \in FetchOutcomes, report \in ReportInputs :
          UsageReportResponse(outcome, report)
    \/ FetchCostReport
    \/ \E outcome \in FetchOutcomes, costs \in CostInputs :
          CostReportResponse(outcome, costs)
    \/ LocalTaskRuns
    \/ LocalTaskFails
    \/ JoinLocal

SpecBuild == InitBuild /\ [][NextBuild]_vars

(***************************************************************************)
(* dbus_service.rs: the cached usage summary.  A date is the number of     *)
(* days since 1970-01-01, a Thursday.                                      *)
(***************************************************************************)
\* today.weekday().num_days_from_sunday()
NumDaysFromSunday(date) == (date + 4) % 7

\* A variant: no days are left on a Sunday.
ComputeDaysUntilResetZeroOnSunday(date) ==
    LET days_since_sunday == NumDaysFromSunday(date)
    IN  (7 - days_since_sunday) % 7

\* Days until next Sunday (if today is Sunday, returns 7).
ComputeDaysUntilReset(date) ==
    LET days_since_sunday == NumDaysFromSunday(date)
    IN  IF days_since_sunday = 0 THEN 7 ELSE 7 - days_since_sunday

\* What get_current_usage("week") gave: an error, or the weekly percentage
\* of the statistics.
WeekUsageInputs ==
    {None} \cup {Some(Percent(n, WeekEstimatedPrompts)) : n \in {0, 2100, 5000}}

\* compute_usage_summary: (week_usage_percent, days_left)
ComputeUsageSummary(usage, date) ==
    <<IF IsSome(usage) THEN Unwrap(usage) ELSE Percent(0, WeekEstimatedPrompts),
      ComputeDaysUntilReset(date)>>

ResetCall(date) == Some([on |-> date, days |-> ComputeDaysUntilReset(date)])

\* update_cache: *cache = Some(compute_usage_summary())
UpdateCache ==
    /\ pc = "dbus"
    /\ \E usage \in WeekUsageInputs : cache' = Some(ComputeUsageSummary(usage, today))
    /\ reset_call' = ResetCall(today)
    /\ UNCHANGED <<pc, today, summary, stats, callVars>>
    /\ UNCHANGED <<aggVars, apiVars, quotaVars, parseVars, scanVars, logVars>>
    /\ UNCHANGED <<usageVars, asyncVars, watchVars>>

\* get_usage_summary: the cached pair, or a fresh one when there is none.
GetUsageSummary ==
    /\ pc = "dbus"
    /\ IF IsSome(cache)
       THEN /\ summary' = cache
            /\ UNCHANGED reset_call
       ELSE /\ \E usage \in WeekUsageInputs :
                  summary' = Some(ComputeUsageSummary(usage, today))
            /\ reset_call' = ResetCall(today)
    /\ UNCHANGED <<pc, today, cache, stats, callVars>>
    /\ UNCHANGED <<aggVars, apiVars, quotaVars, parseVars, scanVars, logVars>>
    /\ UNCHANGED <<usageVars, asyncVars, watchVars>>

\* Midnight UTC passes.
DayPasses ==
    /\ pc = "dbus"
    /\ today < MaxDay
    /\ today' = today + 1
    /\ UNCHANGED <<pc, cache, summary, reset_call, stats, callVars>>
    /\ UNCHANGED <<aggVars, apiVars, quotaVars, parseVars, scanVars, logVars>>
    /\ UNCHANGED <<usageVars, asyncVars, watchVars>>

InitService ==
    /\ pc = "dbus"
    /\ period = "week"
    /\ since = Since(period)
    /\ model_costs = EmptyMap
    /\ InitAggregate
    /\ InitApi
    /\ InitQuotaInputs
    /\ InitParse
    /\ InitScan
    /\ InitLog
    /\ home = EmptyMap
    /\ InitUsage
    /\ InitAsync
    /\ InitDbus
    /\ InitWatcher

NextService ==
    \/ UpdateCache
    \/ GetUsageSummary
    \/ DayPasses

SpecService == InitService /\ [][NextService]_vars

(***************************************************************************)
(* dbus_service.rs: concurrent calls on one UsageService.  A call of       *)
(* update_cache computes the summary and then takes the lock to store it;  *)
(* a call of get_usage_summary takes the lock to read the cache and        *)
(* computes a summary after releasing it when the cache is empty.          *)
(***************************************************************************)
\* A variant: the cached value is never used.
CacheHitNever(cached) == FALSE

\* if let Some(data) = *cache
CacheHit(cached) == IsSome(cached)

\* update_cache: let data = Self::compute_usage_summary();
UpdateCompute(c) ==
    /\ pc = "cache"
    /\ calls[c].pc = "idle"
    /\ \E usage \in WeekUsageInputs :
          calls' = [calls EXCEPT ![c] =
                      [kind |-> "update", pc |-> "computed", seen |-> None,
                       data |-> Some(ComputeUsageSummary(usage, today)),
                       seq |-> compute_count + 1]]
    /\ compute_count' = compute_count + 1
    /\ reset_call' = ResetCall(today)
    /\ UNCHANGED <<pc, today, cache, summary, cache_from, stats>>
    /\ UNCHANGED <<aggVars, apiVars, quotaVars, parseVars, scanVars, logVars>>
    /\ UNCHANGED <<usageVars, asyncVars, watchVars>>

\* update_cache: let mut cache = self.cache.lock().await; *cache = Some(data);
UpdateStore(c) ==
    /\ pc = "cache"
    /\ calls[c].kind = "update"
    /\ calls[c].pc = "computed"
    /\ cache' = calls[c].data
    /\ cache_from' = calls[c].seq
    /\ calls' = [calls EXCEPT ![c].pc = "done"]
    /\ UNCHANGED <<pc, today, summary, reset_call, compute_count, stats>>
    /\ UNCHANGED <<aggVars, apiVars, quotaVars, parseVars, scanVars, logVars>>
    /\ UNCHANGED <<usageVars, asyncVars, watchVars>>

\* get_usage_summary: the lock is taken and the cache read; the cached pair
\* is returned, or the lock is dropped.
GetLockCache(c) ==
    /\ pc = "cache"
    /\ calls[c].pc = "idle"
    /\ IF CacheHit(cache)
       THEN /\ calls' = [calls EXCEPT ![c] =
                           [kind |-> "get", pc |-> "done", seen |-> Some(cache),
                            data |-> cache, seq |-> 0]]
            /\ summary' = cache
       ELSE /\ calls' = [calls EXCEPT ![c] =
                           [kind |-> "get", pc |-> "missed", seen |-> Some(cache),
                            data |-> None, seq |-> 0]]
            /\ UNCHANGED summary
    /\ UNCHANGED <<pc, today, cache, reset_call, compute_count, cache_from, stats>>
    /\ UNCHANGED <<aggVars, apiVars, quotaVars, parseVars, scanVars, logVars>>
    /\ UNCHANGED <<usageVars, asyncVars, watchVars>>

\* get_usage_summary, cache miss: Self::compute_usage_summary() is returned.
GetCompute(c) ==
    /\ pc = "cache"
    /\ calls[c].kind = "get"
    /\ calls[c].pc = "missed"
    /\ \E usage \in WeekUsageInputs :
          LET data == Some(ComputeUsageSummary(usage, today))
          IN  /\ calls' = [calls EXCEPT ![c].pc = "done", ![c].data = data,
                                        ![c].seq = compute_count + 1]
              /\ summary' = data
    /\ compute_count' = compute_count + 1
    /\ reset_call' = ResetCall(today)
    /\ UNCHANGED <<pc, today, cache, cache_from, stats>>
    /\ UNCHANGED <<aggVars, apiVars, quotaVars, parseVars, scanVars, logVars>>
    /\ UNCHANGED <<usageVars, asyncVars, watchVars>>

InitCache ==
    /\ pc = "cache"
    /\ period = "week"
    /\ since = Since(period)
    /\ model_costs = EmptyMap
    /\ InitAggregate
    /\ InitApi
    /\ InitQuotaInputs
    /\ InitParse
    /\ InitScan
    /\ InitLog
    /\ home = EmptyMap
    /\ InitUsage
    /\ InitAsync
    /\ InitDbus
    /\ InitWatcher

NextCache ==
    \/ \E c \in 1..MaxCalls : UpdateCompute(c)
    \/ \E c \in 1..MaxCalls : UpdateStore(c)
    \/ \E c \in 1..MaxCalls : GetLockCache(c)
    \/ \E c \in 1..MaxCalls : GetCompute(c)

SpecCache == InitCache /\ [][NextCache]_vars

(***************************************************************************)
(* lib.rs: the debounce loop of the file watcher.  The clock of the thread *)
(* counts ticks of half the receive timeout; the thread may be delayed, so *)
(* a call returns at its due time or later.                                *)
(***************************************************************************)
\* rx.recv_timeout(Duration::from_millis(500))
RecvTimeoutMillis == 500
Ticks(ms) == (2 * ms) \div RecvTimeoutMillis

Logged(kind) == [kind |-> kind, at |-> clock]

\* A variant: no upper limit on the time since the last event.
ShouldEmitNoLimit(elapsed) == elapsed >= Ticks(500)

\* last_event.elapsed() >= 500 ms && last_event.elapsed() < 1000 ms
ShouldEmit(elapsed) == elapsed >= Ticks(500) /\ elapsed < Ticks(1000)

EventsSent == channel + Cardinality({i \in 1..Len(watch_log) : watch_log[i].kind = "event"})

\* Time passes.
Tick ==
    /\ pc = "watch"
    /\ clock < MaxClock
    /\ clock' = clock + 1
    /\ UNCHANGED <<pc, last_event, wait_start, channel, watch_log, stats>>
    /\ UNCHANGED <<aggVars, apiVars, quotaVars, parseVars, scanVars, logVars>>
    /\ UNCHANGED <<usageVars, asyncVars, dbusVars>>

\* The notify watcher sends a file event to the channel.
FileEvent ==
    /\ pc = "watch"
    /\ EventsSent < MaxEvents
    /\ channel' = channel + 1
    /\ UNCHANGED <<pc, clock, last_event, wait_start, watch_log, stats>>
    /\ UNCHANGED <<aggVars, apiVars, quotaVars, parseVars, scanVars, logVars>>
    /\ UNCHANGED <<usageVars, asyncVars, dbusVars>>

\* rx.recv_timeout returns Ok(_): last_event = Instant::now(), and the loop
\* calls recv_timeout again.
RecvEvent ==
    /\ pc = "watch"
    /\ channel > 0
    /\ channel' = channel - 1
    /\ last_event' = clock
    /\ wait_start' = clock
    /\ watch_log' = Append(watch_log, Logged("event"))
    /\ UNCHANGED <<pc, clock, stats>>
    /\ UNCHANGED <<aggVars, apiVars, quotaVars, parseVars, scanVars, logVars>>
    /\ UNCHANGED <<usageVars, asyncVars, dbusVars>>

\* rx.recv_timeout returns Err(Timeout): nothing was in the channel for
\* 500 ms; "usage-updated" is emitted or not, and the loop calls
\* recv_timeout again.
RecvTimeout ==
    /\ pc = "watch"
    /\ channel = 0
    /\ clock - wait_start >= Ticks(RecvTimeoutMillis)
    /\ watch_log' = IF ShouldEmit(clock - last_event)
                    THEN Append(watch_log, Logged("emit"))
                    ELSE watch_log
    /\ wait_start' = clock
    /\ UNCHANGED <<pc, clock, last_event, channel, stats>>
    /\ UNCHANGED <<aggVars, apiVars, quotaVars, parseVars, scanVars, logVars>>
    /\ UNCHANGED <<usageVars, asyncVars, dbusVars>>

InitWatch ==
    /\ pc = "watch"
    /\ period = "all"
    /\ since = Since(period)
    /\ model_costs = EmptyMap
    /\ InitAggregate
    /\ InitApi
    /\ InitQuotaInputs
    /\ InitParse
    /\ InitScan
    /\ InitLog
    /\ home = EmptyMap
    /\ InitUsage
    /\ InitAsync
    /\ InitDbus
    /\ InitWatcher

NextWatch ==
    \/ Tick
    \/ FileEvent
    \/ RecvEvent
    \/ RecvTimeout

SpecWatch == InitWatch /\ [][NextWatch]_vars

(***************************************************************************)
(* Helpers of the properties.                                              *)
(***************************************************************************)
CounterNames ==
    {"input_tokens", "output_tokens", "cache_creation_input_tokens",
     "cache_read_input_tokens"}

Finished == pc \in {"done", "api_done"}

\* The indices of a sequence whose element satisfies a condition, and sums
\* over index sets.
RECURSIVE SumOver(_, _)
SumOver(S, f) ==
    IF S = {} THEN 0
    ELSE LET x == CHOOSE y \in S : TRUE
         IN  f[x] + SumOver(S \ {x}, f)

\* Stated from the claims: an entry is within the trailing 24 hours when its
\* timestamp is an RFC3339 timestamp of an instant at or after now - 24h.
WithinLastDay(e) ==
    /\ e.timestamp.form = "rfc"
    /\ e.timestamp.local - e.timestamp.off >= Now - 24

\* The entry is before the period's lower bound.
BeforeLowerBound(e) ==
    /\ since # None
    /\ e.timestamp.form = "rfc"
    /\ e.timestamp.local - e.timestamp.off < since[1]

SessionEntries(s) ==
    {i \in 1..Len(entries) : entries[i].session_id = s /\ WithinLastDay(entries[i])}

ActiveIds == {s \in {SESSION1, SESSION2} : SessionEntries(s) # {}}

RowsOf(s) ==
    {i \in 1..Len(stats.active_sessions) : stats.active_sessions[i].session_id = Take8(s)}

(***************************************************************************)
(* C1: each of the four counters of total_tokens equals the sum of that    *)
(* counter over the ModelUsage rows of by_model, for the result of         *)
(* aggregate_usage and for the result of build_usage_stats_from_api.       *)
(***************************************************************************)
C1_TotalIsSumOfModelRows ==
    Finished =>
        \A c \in CounterNames :
            stats.total_tokens[c]
                = SumOver(1..Len(stats.by_model),
                          [i \in 1..Len(stats.by_model) |-> stats.by_model[i].tokens[c]])

\* Two model rows, and an entry left out of the totals by the period.
C1_Witness ==
    /\ pc = "done"
    /\ Len(stats.by_model) = 2
    /\ stats.session_count < Len(entries)
    /\ \A c \in CounterNames : stats.total_tokens[c] > 0

(***************************************************************************)
(* C2: the session window and the period filter are independent.  At every *)
(* point of the fold the session table counts exactly the entries with a   *)
(* non-empty session id and a timestamp within the trailing 24 hours,      *)
(* whatever the lower bound, and the totals count exactly the entries not  *)
(* before the lower bound, whatever their relation to the 24 hours.        *)
(***************************************************************************)
C2_WindowsIndependent ==
    pc \in {"aggregate", "done"} =>
        /\ SumOver(DOMAIN session_data, [s \in DOMAIN session_data |-> session_data[s].count])
             = Cardinality({i \in 1..Len(entries) :
                               WithinLastDay(entries[i]) /\ entries[i].session_id # ""})
        /\ message_count
             = Cardinality({i \in 1..Len(entries) : ~ BeforeLowerBound(entries[i])})
        /\ \A i \in 1..Len(entries) :
              /\ WithinLastDay(entries[i])
              /\ entries[i].session_id # ""
              /\ BeforeLowerBound(entries[i])
              => entries[i].session_id \in DOMAIN session_data

\* An entry of the last 24 hours before the period start, counted in its
\* session and not in the totals, and an entry counted in the totals only.
C2_Witness ==
    /\ pc = "done"
    /\ \E i, j \in 1..Len(entries) :
          /\ WithinLastDay(entries[i]) /\ BeforeLowerBound(entries[i])
          /\ entries[i].session_id # ""
          /\ ~ WithinLastDay(entries[j]) /\ ~ BeforeLowerBound(entries[j])
    /\ Len(stats.active_sessions) = 1
    /\ stats.active_sessions[1].message_count = 1
    /\ stats.session_count = 1
    /\ Len(entries) = 2

(***************************************************************************)
(* C3: the ActiveSession table has exactly one row per session id with an  *)
(* entry in the trailing 24 hours; the row's message_count is the number   *)
(* of those entries and its total_tokens the sum of their four counters.   *)
(***************************************************************************)
C3_OneRowPerSession ==
    pc = "done" =>
        /\ Len(stats.active_sessions) = Cardinality(ActiveIds)
        /\ \A s \in ActiveIds :
              /\ Cardinality(RowsOf(s)) = 1
              /\ \A r \in RowsOf(s) :
                    /\ stats.active_sessions[r].message_count
                         = Cardinality(SessionEntries(s))
                    /\ stats.active_sessions[r].total_tokens
                         = SumOver(SessionEntries(s),
                                   [i \in 1..Len(entries) |->
                                       entries[i].tokens.input_tokens
                                       + entries[i].tokens.output_tokens
                                       + entries[i].tokens.cache_creation_input_tokens
                                       + entries[i].tokens.cache_read_input_tokens])

\* Three entries of one session, the second and third setting no new bound.
C3_Witness ==
    /\ pc = "done"
    /\ Len(stats.active_sessions) = 1
    /\ stats.active_sessions[1].message_count = 3
    /\ stats.active_sessions[1].first_activity = stats.active_sessions[1].last_activity
    /\ stats.active_sessions[1].total_tokens = 3 * 15

(***************************************************************************)
(* C4: for every active session, first_activity is the smallest and        *)
(* last_activity the greatest timestamp string of the session's entries,   *)
(* and the model and the context are those of one entry whose timestamp is *)
(* last_activity, the context being cache_read + cache_creation + input of *)
(* that entry alone.                                                       *)
(***************************************************************************)
C4_FirstLastAndCurrent ==
    pc = "done" =>
        \A s \in ActiveIds :
            \A r \in RowsOf(s) :
                LET row == stats.active_sessions[r]
                    Q == SessionEntries(s)
                IN  /\ \E i \in Q : entries[i].timestamp = row.first_activity
                    /\ \A i \in Q : ~ StrLess(entries[i].timestamp, row.first_activity)
                    /\ \A i \in Q : ~ StrLess(row.last_activity, entries[i].timestamp)
                    /\ \E i \in Q :
                          /\ entries[i].timestamp = row.last_activity
                          /\ entries[i].model = row.model
                          /\ row.context_remaining_percent
                               = Max(200000 - (entries[i].tokens.cache_read_input_tokens
                                               + entries[i].tokens.cache_creation_input_tokens
                                               + entries[i].tokens.input_tokens), 0)

\* A session whose entry processed last is neither its latest nor of its
\* current model.
C4_Witness ==
    /\ pc = "done"
    /\ Len(entries) = 3
    /\ Len(stats.active_sessions) = 1
    /\ stats.active_sessions[1].message_count = 3
    /\ stats.active_sessions[1].first_activity # stats.active_sessions[1].last_activity
    /\ entries[3].timestamp # stats.active_sessions[1].last_activity
    /\ entries[3].model # stats.active_sessions[1].model
    /\ entries[3].timestamp # stats.active_sessions[1].first_activity

(***************************************************************************)
(* C10: the ModelUsage list is sorted descending by input + output tokens. *)
(* As claimed, strictly: every row's input + output is greater than the    *)
(* next row's.                                                             *)
(***************************************************************************)
RowKey(i) ==
    stats.by_model[i].tokens.input_tokens + stats.by_model[i].tokens.output_tokens

C10_StrictlyDescending ==
    Finished => \A i \in 1..(Len(stats.by_model) - 1) : RowKey(i) > RowKey(i + 1)

\* C10, amended: every row's input + output is greater than or equal to the
\* next row's.
C10_Descending ==
    Finished => \A i \in 1..(Len(stats.by_model) - 1) : RowKey(i) >= RowKey(i + 1)

\* Two rows of different input + output, the greater one of the model met
\* second.
C10_Witness ==
    /\ pc = "done"
    /\ Len(stats.by_model) = 2
    /\ RowKey(1) > RowKey(2)
    /\ stats.by_model[1].model # entries[1].model
    /\ InPeriod(entries[1], since)


(***************************************************************************)
(* C5: the result does not depend on the order in which the files, and     *)
(* hence their entries, are processed.  The entries are those of two       *)
(* files, entries[1..k] and the rest; processing the files in the other    *)
(* order gives the same totals, model rows, session rows and last_updated. *)
(***************************************************************************)
InOtherOrder(k) ==
    FoldAll(FoldState(EmptyMap, TokenUsageDefault, EmptyString, 0, EmptyMap),
            SubSeq(entries, k + 1, Len(entries)) \o SubSeq(entries, 1, k),
            since)

C5_FileOrderIrrelevant ==
    pc = "done" =>
        \A k \in 1..(Len(entries) - 1) :
            LET other == InOtherOrder(k)
            IN  /\ stats.total_tokens = other.total
                /\ stats.session_count = other.message_count
                /\ stats.last_updated = other.latest_timestamp
                /\ Range(stats.by_model)
                     = {ModelUsage(m, other.by_model[m], CalculateCost(m, other.by_model[m])) :
                           m \in DOMAIN other.by_model}
                /\ Range(stats.active_sessions)
                     = {ActiveSession(id, other.session_data[id]) :
                           id \in DOMAIN other.session_data}

(***************************************************************************)
(* C9: usage_percent and week_usage_percent are within [0, 100] for every  *)
(* count or score, on the local path (limits 125 and 125*7*24/5) and on    *)
(* the remote path (limits 500 and 2590), and are 100 whenever the count   *)
(* reaches the limit.                                                      *)
(***************************************************************************)
InClosedInterval(p) == p.den > 0 /\ 0 <= p.num /\ p.num <= 100 * p.den
IsHundred(p) == p.num = 100 * p.den

C9_PercentClamped ==
    /\ pc = "done" =>
          /\ InClosedInterval(stats.quota.usage_percent)
          /\ InClosedInterval(stats.quota.week_usage_percent)
          /\ stats.quota.usage_percent.den = 125
          /\ stats.quota.week_usage_percent.den = 4200
          /\ quota_window_prompts >= 125 => IsHundred(stats.quota.usage_percent)
          /\ week_prompts >= 4200 => IsHundred(stats.quota.week_usage_percent)
          /\ quota_window_prompts < 125 =>
                stats.quota.usage_percent.num = 100 * quota_window_prompts
          /\ week_prompts < 4200 =>
                stats.quota.week_usage_percent.num = 100 * week_prompts
    /\ pc = "local_done" =>
          /\ InClosedInterval(local_quota.usage_percent)
          /\ InClosedInterval(local_quota.week_usage_percent)
          /\ local_quota.usage_percent.den = 500
          /\ local_quota.week_usage_percent.den = 2590
          /\ quota_window_weighted >= 500 => IsHundred(local_quota.usage_percent)
          /\ week_weighted >= 2590 => IsHundred(local_quota.week_usage_percent)

\* A count beyond the 5 hour limit with a week count below the week limit.
C9_Witness ==
    /\ pc = "done"
    /\ quota_window_prompts > 125
    /\ week_prompts > 0
    /\ week_prompts < 4200
    /\ IsHundred(stats.quota.usage_percent)
    /\ ~ IsHundred(stats.quota.week_usage_percent)

(***************************************************************************)
(* Helpers of the properties of the readers.                               *)
(***************************************************************************)
\* The line is an entry of kind "user" whose message content is a plain
\* string or a list containing at least one block tagged "text".
GenuinePrompt(line) ==
    /\ line.form = "json"
    /\ line.type = Some("user")
    /\ IsSome(line.message)
    /\ \/ Unwrap(line.message).content.kind = "string"
       \/ /\ Unwrap(line.message).content.kind = "array"
          /\ Some("text") \in Range(Unwrap(line.message).content.blocks)

\* The line is a user entry whose content is a list of tool-result blocks.
ToolResultOnly(line) ==
    /\ line.form = "json"
    /\ line.type = Some("user")
    /\ IsSome(line.message)
    /\ Unwrap(line.message).content.kind = "array"
    /\ Unwrap(line.message).content.blocks # <<>>
    /\ Range(Unwrap(line.message).content.blocks) = {Some("tool_result")}

HasStringTimestamp(line) ==
    /\ IsSome(line.timestamp)
    /\ Unwrap(line.timestamp).form # "number"

\* The timestamp of the line is an RFC 3339 instant not older than `hours`.
StampedWithin(line, hours) ==
    /\ HasStringTimestamp(line)
    /\ Unwrap(line.timestamp).form = "rfc"
    /\ Unwrap(line.timestamp).local - Unwrap(line.timestamp).off >= Now - hours

ScanWindow == IF pc = "daily" THEN 84 * 24 ELSE window_hours

\* What the scan has counted so far.
ScanTotal ==
    IF pc = "daily"
    THEN SumOver(DOMAIN daily_counts, daily_counts)
    ELSE prompt_count

Scanning == pc \in {"count", "daily"} /\ scan_lines # <<>>

LastScanned == scan_lines[Len(scan_lines)]

\* The line decodes as an entry of kind "assistant" with a model and a usage
\* block.
IsUsageLine(line) ==
    /\ line.form = "json"
    /\ ~ (IsSome(line.timestamp) /\ Unwrap(line.timestamp).form = "number")
    /\ line.type = Some("assistant")
    /\ IsSome(line.message)
    /\ IsSome(Unwrap(line.message).model)
    /\ IsSome(Unwrap(line.message).usage)

\* The line decodes as an entry that names a working directory.
SpecifiesCwd(line) ==
    /\ line.form = "json"
    /\ ~ (IsSome(line.timestamp) /\ Unwrap(line.timestamp).form = "number")
    /\ IsSome(line.cwd)

\* The positions of the usage lines of a file, in file order.
UsageLineIndices(lines) ==
    SelectSeq([k \in 1..Len(lines) |-> k], LAMBDA k : IsUsageLine(lines[k]))

\* The working directory of the most recent entry among the first k lines
\* that specified one, the empty string if none did.
CarriedCwd(lines, k) ==
    LET S == {j \in 1..k : SpecifiesCwd(lines[j])}
    IN  IF S = {} THEN ""
        ELSE Unwrap(lines[CHOOSE j \in S : \A h \in S : h <= j].cwd)

OrZero(o) == IF o = None THEN 0 ELSE o[1]

\* The result of the call on the current file, once it has returned.
Returned == pc = "files" /\ files_opened > 0

\* C6 (as stated): parse_user_prompt_timestamp returns a timestamp exactly
\* for the genuine user prompts, and every genuine prompt scanned has added
\* one to the count of the quota window or of the heatmap.
C6_TimestampIffGenuinePrompt ==
    Scanning =>
        /\ IsSome(prompt_ts) <=> GenuinePrompt(LastScanned)
        /\ ScanTotal = Cardinality({i \in 1..Len(scan_lines) : GenuinePrompt(scan_lines[i])})

\* C6 (amended): parse_user_prompt_timestamp returns the entry's timestamp
\* exactly for the genuine user prompts that carry a string timestamp, and
\* nothing for every other line; a scanned line adds one to the count when
\* it is a genuine prompt whose timestamp is an RFC 3339 instant inside the
\* window and zero otherwise, so a tool-result-only entry adds zero.
C6_TimestampIffStampedPrompt ==
    Scanning =>
        /\ IsSome(prompt_ts) <=>
              (GenuinePrompt(LastScanned) /\ HasStringTimestamp(LastScanned))
        /\ IsSome(prompt_ts) => prompt_ts = LastScanned.timestamp
        /\ ScanTotal =
              Cardinality({i \in 1..Len(scan_lines) :
                              /\ GenuinePrompt(scan_lines[i])
                              /\ StampedWithin(scan_lines[i], ScanWindow)})
        /\ ToolResultOnly(LastScanned) => prompt_ts = None

\* A scan that met a tool-result-only entry, which added nothing, and then a
\* prompt with a text block inside the window, which added one.
C6_Witness ==
    /\ Scanning
    /\ Len(scan_lines) = 2
    /\ ToolResultOnly(scan_lines[1])
    /\ GenuinePrompt(scan_lines[2])
    /\ Unwrap(scan_lines[2].message).content.kind = "array"
    /\ IsSome(prompt_ts)
    /\ ScanTotal = 1

\* C7: a readable file never makes parse_usage_from_file fail: the result is
\* Ok and holds, in file order, one ParsedEntry for each line that decodes
\* as an assistant entry with a model and a usage block (absent counters
\* read as 0, an absent timestamp or session id as the empty string), and
\* nothing for any other line.
C7_OneEntryPerUsageLine ==
    /\ (files_opened > 0 /\ file_readable) => parse_result # Some(Err)
    /\ (Returned /\ file_readable) =>
          /\ IsSome(parse_result)
          /\ Unwrap(parse_result).ok
          /\ LET result == Unwrap(parse_result).entries
                 idx == UsageLineIndices(file_lines)
             IN  /\ Len(result) = Len(idx)
                 /\ \A i \in 1..Len(idx) :
                       LET line == file_lines[idx[i]]
                           usage == Unwrap(Unwrap(line.message).usage)
                       IN  /\ result[i].model = Unwrap(Unwrap(line.message).model)
                           /\ result[i].tokens =
                                 Tokens(OrZero(usage.input_tokens),
                                        OrZero(usage.output_tokens),
                                        OrZero(usage.cache_creation_input_tokens),
                                        OrZero(usage.cache_read_input_tokens))
                           /\ result[i].timestamp =
                                 (IF IsSome(line.timestamp)
                                  THEN Unwrap(line.timestamp) ELSE EmptyString)
                           /\ result[i].session_id =
                                 (IF IsSome(line.sessionId)
                                  THEN Unwrap(line.sessionId) ELSE "")

\* A file of three lines, one of them an assistant entry with model and
\* usage between two lines of other kinds, returned one entry.
C7_Witness ==
    /\ Returned
    /\ file_readable
    /\ Len(file_lines) = 3
    /\ ~ IsUsageLine(file_lines[1])
    /\ file_lines[1].form = "garbage"
    /\ IsUsageLine(file_lines[2])
    /\ file_lines[3].type = Some("user")
    /\ parse_result = Some(Ok(usages))
    /\ Len(usages) = 1

\* C8: in one call, an entry whose line omits the working directory has the
\* working directory of the most recent earlier entry of the same file that
\* specified one, the empty string if none did, and an entry that specifies
\* its own has its own; nothing is carried over from the file parsed before.
C8_StickyCwdPerFile ==
    (pc = "parsing" \/ (Returned /\ file_readable)) =>
        LET idx == UsageLineIndices(file_lines)
        IN  /\ Len(usages) = Len(idx)
            /\ \A i \in 1..Len(idx) :
                  usages[i].cwd =
                     IF IsSome(file_lines[idx[i]].cwd)
                     THEN Unwrap(file_lines[idx[i]].cwd)
                     ELSE CarriedCwd(file_lines, idx[i] - 1)

\* The first file left a working directory behind; the second file's first
\* entry omits it and has the empty string, and its next entry specifies
\* its own and has it.
C8_Witness ==
    /\ pc = "parsing"
    /\ files_opened = 2
    /\ Len(all_entries) = 1
    /\ all_entries[1].cwd = DIR_A
    /\ Len(file_lines) = 2
    /\ file_lines[1].cwd = None
    /\ file_lines[2].cwd = Some(DIR_B)
    /\ Len(usages) = 2
    /\ usages[1].cwd = ""
    /\ usages[2].cwd = DIR_B


(***************************************************************************)
(* Daily activity and unreadable files.                                    *)
(***************************************************************************)
\* The UTC calendar day of the instant a timestamp denotes.
UtcDate(ts) == (ts.local - ts.off) \div 24

\* The scanned lines that are genuine prompts of the trailing 84 days whose
\* UTC calendar day is d.
PromptsOfUtcDate(d) ==
    {i \in 1..Len(scan_lines) :
        /\ GenuinePrompt(scan_lines[i])
        /\ StampedWithin(scan_lines[i], 84 * 24)
        /\ UtcDate(Unwrap(scan_lines[i].timestamp)) = d}

\* The days the timestamps of the scanned lines can fall on, as written or
\* in UTC.
ScannedDays ==
    UNION {{UtcDate(Unwrap(scan_lines[i].timestamp)),
            FormatDate(Unwrap(scan_lines[i].timestamp))} :
              i \in {j \in 1..Len(scan_lines) : HasStringTimestamp(scan_lines[j])}}

DailyReturned == pc = "daily" /\ IsSome(activities)

\* C11: every DailyActivity record counts the genuine prompts of the
\* trailing 84 days whose UTC calendar date is the record's date, and a date
\* without such a prompt has no record.
C11_CountsByUtcDate ==
    DailyReturned =>
        LET list == Unwrap(activities)
        IN  /\ \A i \in 1..Len(list) :
                  list[i].prompt_count = Cardinality(PromptsOfUtcDate(list[i].date))
            /\ \A d \in ScannedDays :
                  (PromptsOfUtcDate(d) # {}) <=> (\E i \in 1..Len(list) : list[i].date = d)

\* C12: the list returned by collect_daily_activity is strictly ascending by
\* date, so no two records share a date.
C12_DatesStrictlyAscending ==
    DailyReturned =>
        \A i, j \in 1..Len(Unwrap(activities)) :
            i < j => Unwrap(activities)[i].date < Unwrap(activities)[j].date

\* A list of two records, built from prompts of two days.
C12_Witness ==
    /\ DailyReturned
    /\ Len(Unwrap(activities)) = 2
    /\ Len(scan_lines) = 3
    /\ Unwrap(activities)[2].prompt_count = 2

RECURSIVE OkEntries(_)
OkEntries(results) ==
    IF results = <<>> THEN <<>>
    ELSE (IF Head(results).ok THEN Head(results).entries ELSE <<>>)
            \o OkEntries(Tail(results))

\* C13: a file that cannot be opened is given up at once and the run goes
\* on: every file opened has one outcome, the entries collected are exactly
\* those of the files that could be read, in order, and the prompt counts
\* and daily counts are exactly those of the lines of the readable files.
C13_UnreadableFileSkipped ==
    /\ pc \in {"files", "parsing"} =>
          /\ Len(file_results) = files_opened - (IF pc = "parsing" THEN 1 ELSE 0)
          /\ all_entries = OkEntries(file_results)
    /\ pc \in {"count", "daily"} =>
          /\ Len(file_results) = files_opened
          /\ ScanTotal =
                Cardinality({i \in 1..Len(scan_lines) :
                                /\ GenuinePrompt(scan_lines[i])
                                /\ StampedWithin(scan_lines[i], ScanWindow)})
          /\ (scan_lines # <<>>) => (\E i \in 1..Len(file_results) : file_results[i].ok)

\* The first file could not be opened; the second was parsed and its
\* entries are the entries collected.
C13_Witness ==
    /\ pc = "files"
    /\ Len(file_results) = 2
    /\ ~ file_results[1].ok
    /\ file_results[2].ok
    /\ file_results[2].entries # <<>>
    /\ all_entries = file_results[2].entries



\* C15: last_updated of the result of aggregate_usage is the greatest
\* timestamp string over all the entries given to it, the empty string when
\* there are none, whatever the lower bound of the period.
C15_LastUpdatedOverAllEntries ==
    pc = "done" =>
        /\ (entries = <<>>) => stats.last_updated = EmptyString
        /\ \A i \in 1..Len(entries) : ~ StrLess(stats.last_updated, entries[i].timestamp)
        /\ (entries # <<>>) => \E i \in 1..Len(entries) : stats.last_updated = entries[i].timestamp



(***************************************************************************)
(* get_current_usage and collect_jsonl_files.                              *)
(***************************************************************************)
Roots == {"config", "legacy"}

\* The projects directories that exist.
ExistingRoots ==
    IF home = NoHome THEN {} ELSE {r \in Roots : IsSome(Unwrap(home)[r])}

\* Every *.jsonl file under the existing roots.
JsonlFiles ==
    UNION {{f \in Range(WithPaths(r, Unwrap(Unwrap(home)[r]))) : f.jsonl} :
              r \in ExistingRoots}

\* The counters, the cost and the percentages of a UsageStats are in range
\* and its lists are well formed.
ValidStats(st) ==
    /\ \A c \in CounterNames : st.total_tokens[c] >= 0
    /\ st.total_cost_usd >= 0
    /\ st.session_count >= 0
    /\ InClosedInterval(st.quota.usage_percent)
    /\ InClosedInterval(st.quota.week_usage_percent)
    /\ \A i \in 1..Len(st.by_model) : st.by_model[i].cost_usd >= 0
    /\ \A i \in 1..Len(st.active_sessions) : st.active_sessions[i].message_count >= 1
    /\ \A i \in 1..Len(st.daily_activity) : st.daily_activity[i].prompt_count >= 1

AllZero(st) ==
    /\ st.total_tokens = TokenUsageDefault
    /\ st.total_cost_usd = 0
    /\ st.by_model = <<>>
    /\ st.session_count = 0
    /\ st.last_updated = EmptyString
    /\ st.active_sessions = <<>>
    /\ st.daily_activity = <<>>
    /\ st.quota.messages_in_window = 0

\* C14: get_current_usage returns an error exactly when no data directory
\* exists; otherwise it returns a valid UsageStats, all zero when no file
\* yields an entry or a prompt, for every period string and every content
\* of the files.
C14_ErrorIffNoDataDir ==
    /\ pc = "usage_returned" =>
          /\ IsSome(usage_result)
          /\ (~ Unwrap(usage_result).ok) <=> (ExistingRoots = {})
          /\ Unwrap(usage_result).ok =>
                /\ ValidStats(Unwrap(usage_result).stats)
                /\ (\A f \in JsonlFiles : ~ f.readable \/ f.lines = <<>>)
                      => AllZero(Unwrap(usage_result).stats)
    /\ (pc \in {"usage_files", "usage_quota", "usage_daily", "usage_aggregate"}) =>
          (usage_result = None /\ ExistingRoots # {})

\* Only the current directory exists, the period string is not one of the
\* known ones, and of its two log files one cannot be opened and the other
\* is empty: the result is an all-zero UsageStats.
C14_Witness ==
    /\ pc = "usage_returned"
    /\ period = "year"
    /\ ExistingRoots = {"config"}
    /\ Cardinality(JsonlFiles) = 2
    /\ \E f \in JsonlFiles : ~ f.readable
    /\ \E f \in JsonlFiles : f.readable /\ f.lines = <<>>
    /\ usage_result = Some(OkStats(stats))
    /\ AllZero(stats)

FetchInFlight == usage_fetch = "in_flight" \/ cost_fetch = "in_flight"

FetchFailed(f) == f \in FetchOutcomes \ {"ok"}

Assembled == pc = "build_returned" /\ IsSome(api_return) /\ Unwrap(api_return).ok

\* C16: the local supplemental computation and the remote fetches are two
\* units of work in progress at the same time: the local computation has
\* been started by the time a fetch is in flight, and both the fetches and
\* the local computation have completed when the UsageStats is assembled.
C16_LocalOverlapsFetches ==
    /\ FetchInFlight => local_task # "not_started"
    /\ Assembled => (usage_fetch = "ok" /\ cost_fetch = "ok" /\ local_task = "done")

\* C17: when the usage fetch or the cost fetch fails, by a failed request, a
\* non-success status or an undecodable body, build_usage_stats_from_api
\* returns an error string that names the report and no UsageStats; after a
\* failed usage fetch the cost fetch is never issued, and after either
\* failure the local computation is never started.
C17_FetchFailureIsAnError ==
    /\ FetchFailed(usage_fetch) =>
          /\ pc = "build_returned"
          /\ api_return = Some(ApiErr(FetchError("Usage", usage_fetch)))
          /\ cost_fetch = "idle"
          /\ local_task = "not_started"
          /\ stats = NoStats
    /\ FetchFailed(cost_fetch) =>
          /\ pc = "build_returned"
          /\ api_return = Some(ApiErr(FetchError("Cost", cost_fetch)))
          /\ local_task = "not_started"
          /\ stats = NoStats
    /\ (pc # "build_returned") => api_return = None

\* The usage report arrived, the cost request came back with a non-success
\* status, and the function returned the error of the cost report.
C17_Witness ==
    /\ pc = "build_returned"
    /\ usage_fetch = "ok"
    /\ usage_report # <<>>
    /\ cost_fetch = "api_error"
    /\ api_return = Some(ApiErr("Cost report API error"))



(***************************************************************************)
(* The days until the weekly reset.                                        *)
(***************************************************************************)
\* 1970-01-04 was a Sunday.
IsSunday(date) == (date - 3) % 7 = 0

\* C19: compute_days_until_reset returns the number of days from today to
\* the next UTC Sunday: a number in 1..7 such that today plus it is a
\* Sunday and no day in between is, which is 7 when today is a Sunday.
C19_DaysToNextSunday ==
    IsSome(reset_call) =>
        LET on == Unwrap(reset_call).on
            days == Unwrap(reset_call).days
        IN  /\ days \in 1..7
            /\ IsSunday(on + days)
            /\ \A k \in 1..(days - 1) : ~ IsSunday(on + k)
            /\ IsSunday(on) => days = 7
            /\ \A k \in 1..6 : IsSunday(on - k) => days = 7 - k

\* The summary served was computed on a Saturday, with one day left; the
\* cache was then refreshed on the Sunday, with seven.
C19_Witness ==
    /\ IsSome(reset_call)
    /\ IsSunday(Unwrap(reset_call).on)
    /\ Unwrap(reset_call).days = 7
    /\ IsSome(cache)
    /\ Unwrap(cache)[2] = 7
    /\ IsSome(summary)
    /\ Unwrap(summary)[2] = 1
    /\ today = Unwrap(reset_call).on



(***************************************************************************)
(* The debounce of the file watcher.                                       *)
(***************************************************************************)
Emissions == {i \in 1..Len(watch_log) : watch_log[i].kind = "emit"}
Receipts == {i \in 1..Len(watch_log) : watch_log[i].kind = "event"}

\* C20: "usage-updated" is emitted only when no file event was received in
\* the 500 ms before, and at most once between two consecutive file events:
\* two emissions always have a received event between them.
C20_DebouncedEmission ==
    /\ \A j \in Emissions : \A i \in Receipts :
          i < j => watch_log[j].at - watch_log[i].at >= Ticks(500)
    /\ \A i, j \in Emissions :
          i < j => \E k \in Receipts : i < k /\ k < j

\* A burst of two events 250 ms apart was followed by one emission 500 ms
\* after the second, and by a further timeout without emission.
C20_Witness ==
    /\ Len(watch_log) = 3
    /\ watch_log[1].kind = "event"
    /\ watch_log[2].kind = "event"
    /\ watch_log[2].at = watch_log[1].at + 1
    /\ watch_log[3].kind = "emit"
    /\ watch_log[3].at = watch_log[2].at + Ticks(500)
    /\ clock >= watch_log[3].at + Ticks(500)
    /\ wait_start >= watch_log[3].at + Ticks(500)



(***************************************************************************)
(* The watcher loop: an emission for every burst, none before the first    *)
(* event.                                                                  *)
(***************************************************************************)
LastLogged == watch_log[Len(watch_log)]

\* The last received event can no longer be followed by an emission unless
\* another event arrives: the loop has timed out since without emitting.
BurstMissed ==
    /\ watch_log # <<>>
    /\ LastLogged.kind = "event"
    /\ channel = 0
    /\ wait_start # LastLogged.at

EmittedBeforeFirstEvent ==
    /\ watch_log # <<>>
    /\ watch_log[1].kind = "emit"

\* C21: every file event the loop received is followed by an emission once
\* events stop arriving (no burst is left without its emission), and no
\* emission happens before the first file event has been received.
C21_EmissionAfterEveryBurstAndNoneBefore ==
    /\ ~BurstMissed
    /\ ~EmittedBeforeFirstEvent



(***************************************************************************)
(* The D-Bus cache under concurrent calls.                                 *)
(***************************************************************************)
CallIds == 1..MaxCalls
CompletedUpdates == {c \in CallIds : calls[c].kind = "update" /\ calls[c].pc = "done"}
CompletedGets == {c \in CallIds : calls[c].kind = "get" /\ calls[c].pc = "done"}
\* The call found a summary in the cache when it held the lock.
FoundCached(c) == calls[c].seen # None /\ IsSome(Unwrap(calls[c].seen))
Computed(c) == calls[c].seq > 0

CacheServed ==
    /\ CompletedUpdates # {} => IsSome(cache)
    /\ \A c \in CompletedGets :
          /\ FoundCached(c) => calls[c].data = Unwrap(calls[c].seen) /\ ~Computed(c)
          /\ Computed(c) => ~FoundCached(c) /\ cache_from # calls[c].seq

\* A step of a get_usage_summary call leaves the cache as it is.
GetLeavesCache ==
    \A c \in CallIds :
        calls'[c] # calls[c] /\ calls'[c].kind = "get" =>
            cache' = cache /\ cache_from' = cache_from

\* C22: once an update_cache call has completed the cache is never empty;
\* a get_usage_summary call that finds a cached summary returns it without
\* computing; a call computes only when it found the cache empty, and what
\* it computed is not stored; no step of a get_usage_summary call changes
\* the cache.
C22_CacheServedWithoutRecomputing ==
    /\ []CacheServed
    /\ [][IsSome(cache) => IsSome(cache')]_vars
    /\ [][GetLeavesCache]_vars

\* One call missed the cache and computed, an update stored another
\* summary, and a later call was served the stored one.
C22_Witness ==
    \E g, h \in CompletedGets, u \in CompletedUpdates :
        /\ Computed(g)
        /\ FoundCached(h)
        /\ cache_from = calls[u].seq
        /\ calls[h].data = cache
        /\ calls[g].data # cache



(***************************************************************************)
(* Concurrent update_cache calls.                                          *)
(***************************************************************************)
UpdateCalls == {c \in CallIds : calls[c].kind = "update"}
AllCallsCompleted == \A c \in CallIds : calls[c].pc = "done"
\* The update_cache call that started its computation last.
StartedLast(c) == \A d \in UpdateCalls : calls[d].seq <= calls[c].seq

\* C23: once all concurrent update_cache calls have completed, the cache
\* holds the summary computed by the call that started its computation
\* last.
C23_LastStartedComputationWins ==
    AllCallsCompleted =>
        \A c \in UpdateCalls : StartedLast(c) => cache_from = calls[c].seq

\* The calls that store serialise on the lock: the cache holds the summary
\* of the update_cache call that stored last, and every stored summary was
\* computed by an update_cache call.
StoredByAnUpdate ==
    cache_from # 0 =>
        \E c \in CompletedUpdates : cache_from = calls[c].seq /\ cache = calls[c].data



(***************************************************************************)
(* Entries without a usable timestamp or without a session id.             *)
(***************************************************************************)
\* The timestamp is missing or no RFC3339 timestamp.
Unparsed(e) == e.timestamp.form # "rfc"

TokensOf(bm, m) == IF m \in DOMAIN bm THEN bm[m] ELSE TokenUsageDefault

\* The entry the loop has just processed.
Processed == entries'[Len(entries')]

\* The entry was added to the totals, to its model and to the message count.
CountedInTotals(e) ==
    /\ message_count' = message_count + 1
    /\ \A c \in CounterNames :
          /\ total'[c] = total[c] + e.tokens[c]
          /\ TokensOf(by_model', e.model)[c] = TokensOf(by_model, e.model)[c] + e.tokens[c]

UnparsedOrAnonymousStep ==
    Len(entries') = Len(entries) + 1 =>
        /\ Unparsed(Processed) => CountedInTotals(Processed) /\ session_data' = session_data
        /\ Processed.session_id = "" => session_data' = session_data

\* No ActiveSession row is without a session id, and a row counts only
\* entries of its session with an RFC3339 timestamp.
RowsCountParsedEntries ==
    pc = "done" =>
        \A i \in 1..Len(stats.active_sessions) :
            LET row == stats.active_sessions[i]
                own == {j \in 1..Len(entries) :
                           /\ entries[j].session_id # ""
                           /\ Take8(entries[j].session_id) = row.session_id
                           /\ ~ Unparsed(entries[j])}
            IN  /\ row.session_id # ""
                /\ row.message_count <= Cardinality(own)
                /\ row.total_tokens
                     <= SumOver(own, [j \in own |-> AllTokens(entries[j].tokens)])

\* C24: whatever the period's lower bound, an entry whose timestamp is
\* missing or not RFC3339 is added to the totals, to its model's tokens and
\* to the message count, and changes no session; an entry with an empty
\* session id changes no session; the ActiveSession rows count no such
\* entry.
C24_UnparsedCountedNeverInSessions ==
    /\ [][UnparsedOrAnonymousStep]_vars
    /\ []RowsCountParsedEntries

\* With a lower bound: an entry with a timestamp that is no RFC3339 string,
\* one without timestamp and one of the last 24 hours without session id;
\* all three are in the message count and there is no ActiveSession row.
C24_Witness ==
    /\ pc = "done"
    /\ since # None
    /\ Len(entries) = 3
    /\ \E i, j, k \in 1..3 :
          /\ entries[i].timestamp = TextString
          /\ entries[j].timestamp = EmptyString
          /\ entries[k].session_id = "" /\ WithinLastDay(entries[k])
    /\ stats.session_count = 3
    /\ stats.active_sessions = <<>>


=============================================================================
